---- MODULE Spec2Model ----
(***************************************************************************)
(* A model of the worksheet generators of playplay.                        *)
(*                                                                         *)
(* The addition/subtraction page (Addition_and_Subtraction_Practice.py)    *)
(* draws operand pairs from the process-wide generator of Python's random  *)
(* module, classifies them by their carry or borrow count, and builds a    *)
(* batch of (expression, answer) problems in tier order.                   *)
(*                                                                         *)
(* The random module is a library, not code of the repository.  It is      *)
(* modelled by its contract.  A generator that was never seeded starts     *)
(* from operating-system entropy: every draw may return any value of its   *)
(* range (state Entropy).  A seeded generator is a deterministic automaton *)
(* : the value drawn is a function of its state, and so is the next state. *)
(***************************************************************************)
EXTENDS Integers, Sequences, FiniteSets, TLC

(***************************************************************************)
(* Bounds of the model.                                                    *)
(***************************************************************************)
\* An unseeded randint(lo, hi) is explored on NumSamples + 1 values spread
\* over lo..hi, both ends included.
NumSamples == 7
\* Seeds explored by random.seed are 0..MaxSeed.
MaxSeed == 2
\* Requested batch sizes explored are 0..MaxN.
MaxN == 17
\* Calls of generate_problems explored in one behaviour.
MaxCalls == 2
\* A seeded behaviour starts with the generator in a state of 0..MaxStart.
MaxStart == 1
\* An unseeded draw of an equation's coefficient or solution is explored on
\* CoefSamples + 1 values spread over its range.
CoefSamples == 2
\* The algebra generators are explored on the streams of the seed texts
\* "0" .. str(MaxAlgSeed).
MaxAlgSeed == 20
\* Page runs explored in one behaviour.
MaxRuns == 3
\* build_pdf called on its own lays out grids of 1..MaxRows rows and
\* 1..MaxCols columns.
MaxRows == 3
MaxCols == 3
\* generate_operations is called with a count of 0..MaxCount.
MaxCount == 2

(***************************************************************************)
(* Program constants.                                                      *)
(***************************************************************************)
\* range(2000): the attempts of the sampling loop.
MaxTries == 2000
\* "while tries < 10": the rebuilds of a degenerate left-hand side.
MaxRebuilds == 10

(***************************************************************************)
(* The random module (library), by contract.                               *)
(***************************************************************************)
\* The state of a generator that was never seeded.
Entropy == -1
\* The seeded generator: a multiplicative congruential automaton.  Its state
\* 0 is degenerate (a constant stream), the extreme of "every sequence of
\* draws" a seeded stream can show.
Modulus == 1009
Multiplier == 11

Step(r) == (r * Multiplier) % Modulus

\* random.seed(seed): the state a seed sets.
SeedState(seed) == (seed * 389 + 1) % Modulus

Samples(lo, hi) == {lo + ((hi - lo) * k) \div NumSamples : k \in 0..NumSamples}

\* random.randint(lo, hi) in state r: the set of <<value, next state>>.  An
\* empty range raises ValueError: no value is returned.
RandInt(r, lo, hi) ==
    IF hi < lo THEN {}
    ELSE IF r = Entropy
    THEN {<<v, Entropy>> : v \in Samples(lo, hi)}
    ELSE {<<lo + (r % (hi - lo + 1)), Step(r)>>}

\* random.choice(seq) in state r: the set of <<element, next state>>.
Choice(r, seq) ==
    IF r = Entropy
    THEN {<<seq[i], Entropy>> : i \in 1..Len(seq)}
    ELSE {<<seq[1 + (r % Len(seq))], Step(r)>>}

(***************************************************************************)
(* Operand generators: sets of <<a, b, next generator state>>.             *)
(***************************************************************************)
\* b_max = 999 - a
BMaxAddWhole(a) == 999
BMaxAdd(a) == 999 - a

\* the upper end of subtraction's second draw: randint(100, a)
BMaxSubWhole(a) == 999
BMaxSub(a) == a

generate_3digit_operands_addition(r) ==
    UNION {{<<x[1], y[1], y[2]>> : y \in RandInt(x[2], 100, BMaxAdd(x[1]))} :
           x \in RandInt(r, 100, 899)}

generate_3digit_operands_subtraction(r) ==
    UNION {{<<x[1], y[1], y[2]>> : y \in RandInt(x[2], 100, BMaxSub(x[1]))} :
           x \in RandInt(r, 100, 999)}

(***************************************************************************)
(* Carry and borrow counters: three digit positions, ones upward.          *)
(***************************************************************************)
\* The loop without the incoming carry in the column sum.
RECURSIVE CarryLoopNoCarryIn(_, _, _, _, _)
CarryLoopNoCarryIn(a, b, carry, cnt, k) ==
    IF k = 0 THEN cnt
    ELSE LET hit == (a % 10) + (b % 10) >= 10
         IN  CarryLoopNoCarryIn(a \div 10, b \div 10, 0,
                                IF hit THEN cnt + 1 ELSE cnt, k - 1)

RECURSIVE CarryLoop(_, _, _, _, _)
CarryLoop(a, b, carry, cnt, k) ==
    IF k = 0 THEN cnt
    ELSE LET da == a % 10
             db == b % 10
             hit == da + db + carry >= 10
         IN  CarryLoop(a \div 10, b \div 10,
                       IF hit THEN 1 ELSE 0,
                       IF hit THEN cnt + 1 ELSE cnt,
                       k - 1)

\* Two positions instead of three.
carry_count_add_two(a, b) == CarryLoop(a, b, 0, 0, 2)
\* The loop entered with a carry already set.
carry_count_add_carried(a, b) == CarryLoop(a, b, 1, 0, 3)
carry_count_add(a, b) == CarryLoop(a, b, 0, 0, 3)

\* The loop without the incoming borrow taken off the digit of a.
RECURSIVE BorrowLoopNoBorrowIn(_, _, _, _, _)
BorrowLoopNoBorrowIn(a, b, borrow, cnt, k) ==
    IF k = 0 THEN cnt
    ELSE LET hit == (a % 10) < (b % 10)
         IN  BorrowLoopNoBorrowIn(a \div 10, b \div 10, 0,
                                  IF hit THEN cnt + 1 ELSE cnt, k - 1)

RECURSIVE BorrowLoop(_, _, _, _, _)
BorrowLoop(a, b, borrow, cnt, k) ==
    IF k = 0 THEN cnt
    ELSE LET da == (a % 10) - borrow
             db == b % 10
             hit == da < db
         IN  BorrowLoop(a \div 10, b \div 10,
                        IF hit THEN 1 ELSE 0,
                        IF hit THEN cnt + 1 ELSE cnt,
                        k - 1)

borrow_count_sub(a, b) == BorrowLoop(a, b, 0, 0, 3)

(***************************************************************************)
(* The tier test of the sampling loops.                                    *)
(***************************************************************************)
\* A hard tier that asked for three carries or borrows.
TierAcceptsHardAtThree(tier, count) ==
    \/ tier = "easy" /\ count = 0
    \/ tier = "medium" /\ count = 1
    \/ tier = "hard" /\ count >= 3

TierAcceptsLoose(tier, count) ==
    \/ tier = "easy" /\ count = 0
    \/ tier = "medium" /\ count <= 1
    \/ tier = "hard" /\ count >= 2

TierAccepts(tier, count) ==
    \/ tier = "easy" /\ count = 0
    \/ tier = "medium" /\ count = 1
    \/ tier = "hard" /\ count >= 2

\* One iteration's candidate of _gen_add_by_difficulty / _gen_sub_by_difficulty.
SampleAdd(r) ==
    UNION {{<<x[1], y[1], y[2]>> : y \in RandInt(x[2], 100, 999 - x[1])} :
           x \in RandInt(r, 100, 899)}

SampleSubWide(r) ==
    UNION {{<<x[1], y[1], y[2]>> : y \in RandInt(x[2], 100, 999)} :
           x \in RandInt(r, 100, 999)}

SampleSub(r) ==
    UNION {{<<x[1], y[1], y[2]>> : y \in RandInt(x[2], 100, x[1])} :
           x \in RandInt(r, 100, 999)}

Sample(o, r) == IF o = "+" THEN SampleAdd(r) ELSE SampleSub(r)

Count(o, a, b) == IF o = "+" THEN carry_count_add(a, b) ELSE borrow_count_sub(a, b)

\* The return after the loop: the unconstrained generator.
FallbackSwapped(o, r) ==
    IF o = "+" THEN generate_3digit_operands_subtraction(r)
               ELSE generate_3digit_operands_addition(r)

Fallback(o, r) ==
    IF o = "+" THEN generate_3digit_operands_addition(r)
               ELSE generate_3digit_operands_subtraction(r)

Ops == {"+", "-"}
Tiers == {"easy", "medium", "hard"}
\* A tier argument outside the three the loops test for.
TierArgs == Tiers \cup {"other"}

(***************************************************************************)
(* generate_problems: the tier schedule, the answer, the expression.       *)
(***************************************************************************)
\* Python's round() of the float num / den: to the nearest integer, a tie to
\* the even one.  n * 7 / 16 is exact in binary floating point.
RoundHalfEven(num, den) ==
    LET q == num \div den
        r == num % den
    IN  IF 2 * r < den THEN q
        ELSE IF 2 * r > den THEN q + 1
        ELSE IF q % 2 = 0 THEN q ELSE q + 1

Max(x, y) == IF x >= y THEN x ELSE y

\* [x] * k
Rep(x, k) == [i \in 1..k |-> x]

\* The list "tiers" built at the head of generate_problems(n).
TiersForHardFirst(n) ==
    IF n >= 16
    THEN Rep("hard", 2) \o Rep("medium", 7) \o Rep("easy", 7)
    ELSE LET e == Max(0, RoundHalfEven(n * 7, 16))
             m == Max(0, RoundHalfEven(n * 7, 16))
             h == Max(0, n - e - m)
         IN  Rep("hard", h) \o Rep("medium", m) \o Rep("easy", e)

TiersForShifted(n) ==
    IF n >= 16
    THEN Rep("easy", 6) \o Rep("medium", 8) \o Rep("hard", 2)
    ELSE LET e == Max(0, RoundHalfEven(n * 7, 16))
             m == Max(0, RoundHalfEven(n * 7, 16))
             h == Max(0, n - e - m)
         IN  Rep("easy", e) \o Rep("medium", m) \o Rep("hard", h)

TiersFor(n) ==
    IF n >= 16
    THEN Rep("easy", 7) \o Rep("medium", 7) \o Rep("hard", 2)
    ELSE LET e == Max(0, RoundHalfEven(n * 7, 16))
             m == Max(0, RoundHalfEven(n * 7, 16))
             h == Max(0, n - e - m)
         IN  Rep("easy", e) \o Rep("medium", m) \o Rep("hard", h)

\* answer = a + b / answer = a - b
AnswerSum(o, a, b) == a + b
Answer(o, a, b) == IF o = "+" THEN a + b ELSE a - b

\* A Python str is modelled as the sequence of its characters.
DigitChars == <<"0", "1", "2", "3", "4", "5", "6", "7", "8", "9">>

\* str(k) of an int: its decimal digits, most significant first.
RECURSIVE Str(_)
Str(k) ==
    IF k < 0 THEN <<"-">> \o Str(0 - k)
    ELSE IF k < 10 THEN <<DigitChars[k + 1]>>
    ELSE Append(Str(k \div 10), DigitChars[(k % 10) + 1])

\* f"{a} {op} {b}"
Format(a, o, b) == Str(a) \o <<" ", o, " ">> \o Str(b)

(***************************************************************************)
(* The algebra pages: exact rationals (fractions.Fraction), str.replace,   *)
(* and the evaluation of an expression string (re.sub, eval).              *)
(***************************************************************************)
Abs(k) == IF k < 0 THEN 0 - k ELSE k

RECURSIVE Gcd(_, _)
Gcd(a, b) == IF b = 0 THEN a ELSE Gcd(b, a % b)

\* The value of an expression that raised instead of returning.
Undefined == <<0, 0>>

\* Fraction(num, den): lowest terms, positive denominator.
Fraction(num, den) ==
    IF den = 0 THEN Undefined
    ELSE LET g == Gcd(Abs(num), Abs(den))
             sg == IF den < 0 THEN 0 - 1 ELSE 1
         IN  <<(sg * num) \div g, (sg * den) \div g>>

FracAdd(p, q) ==
    IF p = Undefined \/ q = Undefined THEN Undefined
    ELSE Fraction(p[1] * q[2] + q[1] * p[2], p[2] * q[2])

FracNeg(p) == IF p = Undefined THEN Undefined ELSE <<0 - p[1], p[2]>>

FracMul(p, q) ==
    IF p = Undefined \/ q = Undefined THEN Undefined
    ELSE Fraction(p[1] * q[1], p[2] * q[2])

FracDiv(p, q) ==
    IF p = Undefined \/ q = Undefined THEN Undefined
    ELSE Fraction(p[1] * q[2], p[2] * q[1])

\* s.startswith(t, i), positions from 1.
StartsWith(s, t, i) ==
    /\ i + Len(t) - 1 <= Len(s)
    /\ \A j \in 1..Len(t) : s[i + j - 1] = t[j]

\* s.replace(old, new): the occurrences of old, leftmost first and not
\* overlapping, are replaced by new.
RECURSIVE ReplaceFrom(_, _, _, _)
ReplaceFrom(s, old, new, i) ==
    IF i > Len(s) THEN << >>
    ELSE IF StartsWith(s, old, i) THEN new \o ReplaceFrom(s, old, new, i + Len(old))
    ELSE <<s[i]>> \o ReplaceFrom(s, old, new, i + 1)

Replace(s, old, new) == ReplaceFrom(s, old, new, 1)

IsDecimal(c) == \E i \in 1..10 : DigitChars[i] = c

\* int(s) of a run of decimal digits.
RECURSIVE IntLiteral(_)
IntLiteral(s) ==
    IF s = << >> THEN 0
    ELSE 10 * IntLiteral(SubSeq(s, 1, Len(s) - 1))
         + (CHOOSE d \in 0..9 : DigitChars[d + 1] = s[Len(s)])

\* The first position from i on that holds no blank (Len(s) + 1 if none).
RECURSIVE SkipBlanks(_, _)
SkipBlanks(s, i) ==
    IF i <= Len(s) /\ s[i] = " " THEN SkipBlanks(s, i + 1) ELSE i

\* The first position from i on that holds no digit.
RECURSIVE DigitsEnd(_, _)
DigitsEnd(s, i) ==
    IF i <= Len(s) /\ IsDecimal(s[i]) THEN DigitsEnd(s, i + 1) ELSE i

\* re.sub(r"(?P<num>-?\d+)\s*x", r"\g<num>*x", s): a numeral followed, after
\* optional blanks, by x gets an explicit "*" and loses the blanks.
RECURSIVE ToEvalFrom(_, _)
ToEvalFrom(s, i) ==
    IF i > Len(s) THEN << >>
    ELSE IF IsDecimal(s[i])
    THEN LET j == DigitsEnd(s, i)
             k == SkipBlanks(s, j)
         IN  IF k <= Len(s) /\ s[k] = "x"
             THEN SubSeq(s, i, j - 1) \o <<"*", "x">> \o ToEvalFrom(s, k + 1)
             ELSE SubSeq(s, i, j - 1) \o ToEvalFrom(s, j)
    ELSE <<s[i]>> \o ToEvalFrom(s, i + 1)

to_eval_expr(s) == ToEvalFrom(s, 1)

\* eval(expr, ..., {"x": Fraction(xval)}): Python's expression grammar on the
\* characters the pages produce.  A parse step returns the value read and the
\* position after it; a character that fits no rule makes the value Undefined
\* (SyntaxError).  Unary minus binds tighter than * and /, which bind tighter
\* than + and -; operators of one level associate to the left.
At(s, i) == IF i <= Len(s) THEN s[i] ELSE "end"

RECURSIVE ParseSum(_, _, _)
RECURSIVE ParseUnary(_, _, _)
RECURSIVE ProductTail(_, _, _, _)
RECURSIVE SumTail(_, _, _, _)
ParseUnary(s, i, x) ==
    LET j == SkipBlanks(s, i)
        c == At(s, j)
    IN  IF c = "-"
        THEN LET u == ParseUnary(s, j + 1, x)
             IN  [val |-> FracNeg(u.val), pos |-> u.pos]
        ELSE IF c = "("
        THEN LET e == ParseSum(s, j + 1, x)
                 k == SkipBlanks(s, e.pos)
             IN  IF At(s, k) = ")"
                 THEN [val |-> e.val, pos |-> k + 1]
                 ELSE [val |-> Undefined, pos |-> Len(s) + 1]
        ELSE IF c = "x"
        THEN [val |-> x, pos |-> j + 1]
        ELSE IF IsDecimal(c)
        THEN LET k == DigitsEnd(s, j)
             IN  [val |-> <<IntLiteral(SubSeq(s, j, k - 1)), 1>>, pos |-> k]
        ELSE [val |-> Undefined, pos |-> Len(s) + 1]

ProductTail(s, i, x, acc) ==
    LET j == SkipBlanks(s, i)
        c == At(s, j)
    IN  IF c \in {"*", "/"}
        THEN LET u == ParseUnary(s, j + 1, x)
             IN  ProductTail(s, u.pos, x,
                             IF c = "*" THEN FracMul(acc, u.val) ELSE FracDiv(acc, u.val))
        ELSE [val |-> acc, pos |-> j]

ParseProduct(s, i, x) ==
    LET u == ParseUnary(s, i, x) IN ProductTail(s, u.pos, x, u.val)

SumTail(s, i, x, acc) ==
    LET j == SkipBlanks(s, i)
        c == At(s, j)
    IN  IF c \in {"+", "-"}
        THEN LET t == ParseProduct(s, j + 1, x)
             IN  SumTail(s, t.pos, x,
                         IF c = "+" THEN FracAdd(acc, t.val) ELSE FracAdd(acc, FracNeg(t.val)))
        ELSE [val |-> acc, pos |-> j]

ParseSum(s, i, x) ==
    LET t == ParseProduct(s, i, x) IN SumTail(s, t.pos, x, t.val)

PyEval(s, x) ==
    LET e == ParseSum(s, 1, x)
    IN  IF e.pos = Len(s) + 1 THEN e.val ELSE Undefined

\* eval_at(xval) of one_equation, for the left-hand side lhs.
eval_at(lhs, xval) == PyEval(to_eval_expr(lhs), <<xval, 1>>)

(***************************************************************************)
(* pages/03_Isolating_Variable_Practice.py: the left-hand sides.           *)
(***************************************************************************)
\* The values 0..k spread over lo..hi, both ends included.
Grid(lo, hi, k) == {lo + ((hi - lo) * j) \div k : j \in 0..k}

\* random.randint(lo, hi) for a coefficient: as RandInt, explored on
\* CoefSamples + 1 values when the generator is unseeded.
RandCoef(r, lo, hi) ==
    IF hi < lo THEN {}
    ELSE IF r = Entropy
    THEN {<<v, Entropy>> : v \in Grid(lo, hi, CoefSamples)}
    ELSE {<<lo + (r % (hi - lo + 1)), Step(r)>>}

\* random.random() < 0.5 in state r: the set of <<outcome, next state>>.
BelowHalf(r) ==
    IF r = Entropy
    THEN {<<TRUE, Entropy>>, <<FALSE, Entropy>>}
    ELSE {<<2 * r < Modulus, Step(r)>>}

\* randint_nonzero(lo, hi): draw again until the value is not 0.
RECURSIVE randint_nonzero(_, _, _)
randint_nonzero(r, lo, hi) ==
    UNION {IF d[1] # 0 THEN {d}
           ELSE IF r = Entropy THEN {}
           ELSE randint_nonzero(d[2], lo, hi)
           : d \in RandCoef(r, lo, hi)}

\* One draw, named by the call that makes it: the set of <<value, next state>>.
\*   <<"nz", lo, hi>>    randint_nonzero(lo, hi), rand_nonzero(lo, hi)
\*   <<"int", lo, hi>>   random.randint(lo, hi)
\*   <<"cint", lo, hi>>  cint of one_problem: random.randint(lo, hi), 1 for 0
\*   <<"sign", 0, 0>>    random.choice(["+", "-"])
\*   <<"coin", 0, 0>>    random.random() < 0.5
Draw(r, spec) ==
    CASE spec[1] = "nz" -> randint_nonzero(r, spec[2], spec[3])
      [] spec[1] = "int" -> RandCoef(r, spec[2], spec[3])
      [] spec[1] = "cint" ->
           {<<IF d[1] = 0 THEN 1 ELSE d[1], d[2]>> : d \in RandCoef(r, spec[2], spec[3])}
      [] spec[1] = "sign" -> Choice(r, <<"+", "-">>)
      [] spec[1] = "coin" -> BelowHalf(r)

\* Draws made one after the other, in program order: the set of
\* <<values drawn, next state>>.
RECURSIVE Draws(_, _)
Draws(r, specs) ==
    IF specs = << >> THEN {<< << >>, r >>}
    ELSE UNION {{<< <<d[1]>> \o rest[1], rest[2] >> : rest \in Draws(d[2], Tail(specs))}
                : d \in Draw(r, Head(specs))}

\* The two shapes of a level and the draws of each: "if random.random() <
\* 0.5" picks the first.  Pattern(level, first, v) is the f-string of the
\* shape on the values v drawn.
PatternDraws(level, first) ==
    CASE level = 1 /\ first  -> << <<"nz", 1, 12>>, <<"int", 0 - 12, 12>> >>
      [] level = 1 /\ ~first -> << <<"int", 0 - 12, 12>>, <<"nz", 2, 9>> >>
      [] level = 2 /\ first  -> << <<"int", 0 - 10, 10>>, <<"nz", 2, 9>>, <<"int", 1, 10>> >>
      [] level = 2 /\ ~first -> << <<"nz", 2, 9>>, <<"int", 0 - 10, 10>>, <<"int", 0 - 10, 10>> >>
      [] level = 3 /\ first  -> << <<"nz", 2, 12>>, <<"int", 0 - 10, 10>>,
                                   <<"int", 0 - 10, 10>>, <<"nz", 2, 9>> >>
      [] level = 3 /\ ~first -> << <<"nz", 1, 12>>, <<"nz", 1, 12>>,
                                   <<"int", 0 - 12, 12>>, <<"int", 0 - 12, 12>> >>
      [] level = 4 /\ first  -> << <<"nz", 2, 12>>, <<"nz", 2, 12>>, <<"int", 0 - 10, 10>>,
                                   <<"int", 0 - 10, 10>>, <<"nz", 2, 9>> >>
      [] level = 4 /\ ~first -> << <<"int", 0 - 10, 10>>, <<"int", 0 - 10, 10>>,
                                   <<"nz", 2, 9>>, <<"nz", 2, 9>> >>

Pattern(level, first, v) ==
    CASE level = 1 /\ first ->
           \* f"{a}x + {b}"
           Str(v[1]) \o <<"x", " ", "+", " ">> \o Str(v[2])
      [] level = 1 /\ ~first ->
           \* f"(x - {b})/{d}"
           <<"(", "x", " ", "-", " ">> \o Str(v[1]) \o <<")", "/">> \o Str(v[2])
      [] level = 2 /\ first ->
           \* f"{a} - (x/{d} + {b})"
           Str(v[1]) \o <<" ", "-", " ", "(", "x", "/">> \o Str(v[2])
               \o <<" ", "+", " ">> \o Str(v[3]) \o <<")">>
      [] level = 2 /\ ~first ->
           \* f"{k}*(x + {b}) - {c}"
           Str(v[1]) \o <<"*", "(", "x", " ", "+", " ">> \o Str(v[2])
               \o <<")", " ", "-", " ">> \o Str(v[3])
      [] level = 3 /\ first ->
           \* f"{a}*(x + {b}) - (x - {c})/{d}"
           Str(v[1]) \o <<"*", "(", "x", " ", "+", " ">> \o Str(v[2])
               \o <<")", " ", "-", " ", "(", "x", " ", "-", " ">> \o Str(v[3])
               \o <<")", "/">> \o Str(v[4])
      [] level = 3 /\ ~first ->
           \* f"{a}x + {b} - {c}x - {d}": the values are drawn a, c, b, d
           Str(v[1]) \o <<"x", " ", "+", " ">> \o Str(v[3]) \o <<" ", "-", " ">>
               \o Str(v[2]) \o <<"x", " ", "-", " ">> \o Str(v[4])
      [] level = 4 /\ first ->
           \* f"{k}*(x - {a}) + {m}*(x + {b})/{d}": drawn k, m, a, b, d
           Str(v[1]) \o <<"*", "(", "x", " ", "-", " ">> \o Str(v[3])
               \o <<")", " ", "+", " ">> \o Str(v[2])
               \o <<"*", "(", "x", " ", "+", " ">> \o Str(v[4]) \o <<")", "/">> \o Str(v[5])
      [] level = 4 /\ ~first ->
           \* f"(x - {a})/{d} - (x + {b})/{t}": drawn a, b, d, t
           <<"(", "x", " ", "-", " ">> \o Str(v[1]) \o <<")", "/">> \o Str(v[3])
               \o <<" ", "-", " ", "(", "x", " ", "+", " ">> \o Str(v[2])
               \o <<")", "/">> \o Str(v[4])

\* lhs_pattern_level1 .. lhs_pattern_level4 in state r: the set of
\* <<left-hand side, next state>>.  Levels other than 1, 2, 3 take the else
\* branch of one_equation, level 4.
lhs_pattern(level, r) ==
    UNION {{<<Pattern(level, c[1], d[1]), d[2]>> : d \in Draws(c[2], PatternDraws(level, c[1]))}
           : c \in BelowHalf(r)}

\* str(Fraction) as one_equation prints it: "num" or "num/den".
rhs_str(val) ==
    IF val[2] = 1 THEN Str(val[1]) ELSE Str(val[1]) \o <<"/">> \o Str(val[2])

\* The while condition of one_equation after "tries < 10": the left-hand side
\* has the same value at solution and at solution + 1.
Degenerate(lhs, solution) == eval_at(lhs, solution) = eval_at(lhs, solution + 1)

\* f"{lhs} = {rhs_str}"
EquationText(lhs, solution) ==
    lhs \o <<" ", "=", " ">> \o rhs_str(eval_at(lhs, solution))

NormalizeEquationToPlus(e) ==
    Replace(Replace(Replace(e, <<"+", "-">>, <<"-", " ">>),
                    <<"-", " ", "-">>, <<"+", " ">>),
            <<"+", " ", "-">>, <<"+", " ">>)

\* The replacements generate_equations applies to every equation it returns.
NormalizeEquation(e) ==
    Replace(Replace(Replace(e, <<"+", "-">>, <<"-", " ">>),
                    <<"-", " ", "-">>, <<"+", " ">>),
            <<"+", " ", "-">>, <<"-", " ">>)

\* The level schedule of generate_distributive(n) and generate_equations(n):
\* count_easy items of level 1, count_medium of levels 2, 3, 2, ... and
\* count_hard of level 4.
Min(a, b) == IF a < b THEN a ELSE b

count_easy(k) == Min(7, k)
count_medium(k) == Min(7, Max(0, k - count_easy(k)))
\* A hard loop fixed at the two items of the 16-item worksheet.
count_hard_two(k) == Min(2, Max(0, k - count_easy(k) - count_medium(k)))
count_hard(k) == Max(0, k - count_easy(k) - count_medium(k))

(***************************************************************************)
(* pages/02_Distributive_Property_Practice.py: one expression.             *)
(***************************************************************************)
VARS == <<"a", "b", "x", "y", "m", "n">>

\* pool = VARS[: 2 + level]
Pool(level) == SubSeq(VARS, 1, Min(2 + level, Len(VARS)))

\* coef_max = {1: 5, 2: 12, 3: 20, 4: 30}[level]
coef_max(level) == CASE level = 1 -> 5 [] level = 2 -> 12 [] level = 3 -> 20 [] level = 4 -> 30

\* "while v2 == v1 and level >= 3 and random.random() < 0.5: v2 =
\* random.choice(pool)", entered with v2 drawn: the set of <<v2, next state>>.
\* On an unseeded generator the loop can leave with every element of the pool.
RECURSIVE SecondVar(_, _, _, _)
SecondVar(r, level, v1, v2) ==
    IF v2 # v1 \/ level < 3 THEN {<<v2, r>>}
    ELSE IF r = Entropy THEN Choice(r, Pool(level))
    ELSE LET c == CHOOSE d \in BelowHalf(r) : TRUE
         IN  IF c[1]
             THEN LET w == CHOOSE d \in Choice(c[2], Pool(level)) : TRUE
                  IN  SecondVar(w[2], level, v1, w[1])
             ELSE {<<v2, c[2]>>}

\* lin(coeff, var)
lin(coeff, var) ==
    (IF coeff < 0 THEN <<"-">> ELSE << >>) \o Str(Abs(coeff)) \o <<var>>

\* The draws of a level after the variables, in program order.
ProblemDraws(level) ==
    LET mx == coef_max(level)
        cint == <<"cint", 0 - mx, mx>>
        cpos == <<"nz", 1, mx>>
        int == <<"int", 1, mx>>
        sign == <<"sign", 0, 0>>
    IN  CASE level = 1 -> <<cint, cpos, cpos, int, sign, sign>>
          [] level = 2 -> <<cint, cpos, cpos, cpos, int, sign, sign, <<"coin", 0, 0>> >>
          [] level = 3 -> <<cint, cpos, cpos, cpos, int, sign, sign, sign>>
          [] level = 4 -> <<cint, cpos, cpos, cpos, cpos, cpos, int, sign, sign, sign, sign, sign>>

\* f"{k}*({lin(m, v1)} {sign} {n})"
Distributed(k, m, v1, sign, c) ==
    Str(k) \o <<"*", "(">> \o lin(m, v1) \o <<" ", sign, " ">> \o Str(c) \o <<")">>

\* f"{k}*({lin(m, v1)} {s1} ({lin(p, v2)} {s2} {n}))"
Nested(k, m, v1, s1, p, v2, s2, c) ==
    Str(k) \o <<"*", "(">> \o lin(m, v1) \o <<" ", s1, " ", "(">> \o lin(p, v2)
        \o <<" ", s2, " ">> \o Str(c) \o <<")", ")">>

\* The expression of a level on the variables and the values v drawn.
Shape(level, v1, v2, v) ==
    CASE level = 1 ->
           \* c, k, m, n, inner_sign, outer_sign
           Str(v[1]) \o <<" ", v[6], " ">> \o Distributed(v[2], v[3], v1, v[5], v[4])
      [] level = 2 ->
           \* c, k, m, m2, n, inner_sign, outer_sign, random.random() < 0.5
           IF v[8]
           THEN Distributed(v[2], v[3], v1, v[6], v[5]) \o <<" ", v[7], " ">> \o Str(v[1])
           ELSE lin(v[4], v1) \o <<" ", v[7], " ">> \o Distributed(v[2], v[3], v1, v[6], v[5])
      [] level = 3 ->
           \* c, k, m, p, n, s1, s2, outer_sign
           Nested(v[2], v[3], v1, v[6], v[4], v2, v[7], v[5])
               \o <<" ", v[8], " ">> \o Str(v[1])
      [] level = 4 ->
           \* c, k, t, m, p, q, r, s1, s2, s3, s4, the choice inside the f-string
           Nested(v[2], v[4], v1, v[8], v[5], v2, v[9], v[7])
               \o <<" ", v[11], " ">> \o Distributed(v[3], v[6], v1, v[10], v[7])
               \o <<" ", v[12], " ">> \o Str(v[1])

\* "Normalize simple sign artifacts"
NormalizeExpression(e) ==
    Replace(Replace(Replace(Replace(e, <<"+", "-">>, <<"-", " ">>),
                            <<"-", " ", "-">>, <<"+", " ">>),
                    <<"-", " ", "+">>, <<"-", " ">>),
            <<"+", " ", "-">>, <<"-", " ">>)

\* one_problem(level) in state r: the set of <<expression, next state>>.
one_problem(level, r) ==
    UNION {UNION {UNION {{<<NormalizeExpression(Shape(level, a[1], c[1], d[1])), d[2]>>
                         : d \in Draws(c[2], ProblemDraws(level))}
                        : c \in SecondVar(b[2], level, a[1], b[1])}
                 : b \in Choice(a[2], Pool(level))}
          : a \in Choice(r, Pool(level))}

(***************************************************************************)
(* The pages: seeding, the stored batch, the export.                       *)
(***************************************************************************)
Pages == {"addsub", "dist", "eq"}

\* What the user may have typed in the seed field of a page: nothing, or a
\* number; on the addition/subtraction page the number follows a blank, and
\* the field may also hold a word before a blank.
SeedTexts(p) ==
    IF p = "addsub" THEN {<< >>, <<" ", "1">>, <<"a", " ">>}
    ELSE {<< >>, <<"1">>}

\* s.strip() on blanks.
RECURSIVE Strip(_)
Strip(t) ==
    IF t = << >> THEN t
    ELSE IF Head(t) = " " THEN Strip(Tail(t))
    ELSE IF t[Len(t)] = " " THEN Strip(SubSeq(t, 1, Len(t) - 1))
    ELSE t

\* int(t) returns for a run of digits, and raises ValueError otherwise.
IsInt(t) == t # << >> /\ \A i \in 1..Len(t) : IsDecimal(t[i])

\* random.seed(t) of a str: the state set is a function of the characters,
\* and not the state set by the int the characters spell.
RECURSIVE TextCode(_)
TextCode(t) ==
    IF t = << >> THEN 7
    ELSE (31 * TextCode(SubSeq(t, 1, Len(t) - 1))
          + (IF IsDecimal(t[Len(t)]) THEN IntLiteral(<<t[Len(t)]>>) ELSE 10)) % Modulus

SeedStr(t) == SeedState(100 + TextCode(t))

RECURSIVE JoinNoSeparator(_, _)
JoinNoSeparator(parts, sep) ==
    IF parts = << >> THEN << >> ELSE parts[1] \o JoinNoSeparator(Tail(parts), sep)

\* sep.join(parts)
RECURSIVE Join(_, _)
Join(parts, sep) ==
    IF parts = << >> THEN << >>
    ELSE IF Len(parts) = 1 THEN parts[1]
    ELSE parts[1] \o sep \o Join(Tail(parts), sep)

\* "items = problems[: rows * cols]", padded with ("", 0) to rows * cols.
GridItems(list, rows, cols) ==
    SubSeq(list, 1, Min(Len(list), rows * cols))
        \o Rep(<< << >>, 0 >>, Max(0, rows * cols - Len(list)))

\* "t in s" for strings.
Contains(s, t) == \E i \in 1..Len(s) : StartsWith(s, t, i)

\* lhs_text(t): "t.split('=')[0].strip() if '=' in t else t.strip()"
lhs_text(t) ==
    IF Contains(t, <<"=">>)
    THEN Strip(SubSeq(t, 1, (CHOOSE i \in 1..Len(t) :
                                /\ t[i] = "="
                                /\ \A j \in 1..(i - 1) : t[j] # "=") - 1))
    ELSE Strip(t)

\* The heuristic of the answer key: some item holds both 'x' and '='.
solve_for_x_mode(items, rows, cols) ==
    \E i \in 1..Min(Len(items), rows * cols) :
        Contains(items[i][1], <<"x">>) /\ Contains(items[i][1], <<"=">>)

\* A cell of the worksheet table for items[idx], idx counted from 0 as in the
\* code: f"{idx + 1}) {text}".
ProblemCell(items, idx) == Str(idx + 1) \o <<")", " ">> \o items[idx + 1][1]

\* An answer key that showed the left-hand side whatever use_lhs is.
AnswerCellLhsAlways(items, idx, use_lhs, prefix) ==
    Str(idx + 1) \o <<")", " ">> \o lhs_text(items[idx + 1][1])
        \o <<" ", "=", " ">> \o Str(items[idx + 1][2])

\* A cell of the answer key: f"{idx + 1}) {lhs_text(problem)} = {ans}" when
\* use_lhs holds, f"{idx + 1}) {prefix}{ans}" otherwise.
AnswerCell(items, idx, use_lhs, prefix) ==
    IF use_lhs
    THEN Str(idx + 1) \o <<")", " ">> \o lhs_text(items[idx + 1][1])
             \o <<" ", "=", " ">> \o Str(items[idx + 1][2])
    ELSE Str(idx + 1) \o <<")", " ">> \o prefix \o Str(items[idx + 1][2])

\* The loops of both tables run "for r in range(rows)" and read
\* items[left_idx] and items[right_idx], left_idx = r, right_idx = r + rows,
\* whatever cols is: the k-th cell read (k from 1, row by row, left then
\* right) is in row (k - 1) \div 2 and on side (k - 1) % 2.
CellRead(rows, k) ==
    [row |-> (k - 1) \div 2, side |-> (k - 1) % 2,
     idx |-> ((k - 1) \div 2) + ((k - 1) % 2) * rows]

\* build_pdf(problems, title=.., include_answer_key=.., rows=.., cols=..,
\* answer_key_use_lhs=.., answer_key_prefix=..), a the arguments: raises
\* RuntimeError at its first statement when ReportLab is missing, and
\* IndexError at the first read past the padded list; otherwise the
\* document holds the worksheet table and, when asked for, the answer key.
\* right_label only adds label cells beside the problem cells and changes
\* widths.
build_pdf(available, a) ==
    LET list == GridItems(a.problems, a.rows, a.cols)
        solve == Contains(a.title, <<"S", "o", "l", "v", "e", " ", "f", "o", "r", " ", "x">>)
                     \/ solve_for_x_mode(list, a.rows, a.cols)
        cell(k) == CellRead(a.rows, k)
    IN  IF ~available
        THEN [error |-> "RuntimeError", items |-> << >>, table |-> << >>, key |-> << >>]
        ELSE IF \E k \in 1..(2 * a.rows) : cell(k).idx >= Len(list)
        THEN [error |-> "IndexError", items |-> << >>, table |-> << >>, key |-> << >>]
        ELSE [error |-> "none",
              items |-> list,
              table |-> [k \in 1..(2 * a.rows) |->
                            [row |-> cell(k).row, side |-> cell(k).side,
                             idx |-> cell(k).idx,
                             text |-> ProblemCell(list, cell(k).idx)]],
              key |-> IF a.key
                      THEN [k \in 1..(2 * a.rows) |->
                               [row |-> cell(k).row, side |-> cell(k).side,
                                idx |-> cell(k).idx,
                                text |-> AnswerCell(list, cell(k).idx,
                                                    a.use_lhs /\ ~solve,
                                                    IF solve THEN << >> ELSE a.prefix)]]
                      ELSE << >>]

\* The arguments the pages leave at their defaults or pass as constants:
\* the default title, an answer key, 8 rows, 2 columns.
PageArgs(list) ==
    [problems |-> list,
     title |-> <<"A", "d", "d", "i", "t", "i", "o", "n", " ", "&", " ", "S", "u", "b",
               "t", "r", "a", "c", "t", "i", "o", "n", " ", "P", "r", "a", "c", "t",
               "i", "c", "e">>,
     key |-> TRUE, rows |-> 8, cols |-> 2, use_lhs |-> TRUE, prefix |-> << >>]

NoOffer == [kind |-> "none", data |-> << >>, raised |-> FALSE]

\* The download a page run ends with.  The addition/subtraction page catches
\* the RuntimeError of build_pdf and offers the expressions as text; the
\* algebra pages test REPORTLAB_AVAILABLE and only show a notice.  The answer
\* key of the algebra pages is not modelled: their items carry no answer.
Export(p, available, batch) ==
    IF p = "addsub"
    THEN LET b == build_pdf(available, PageArgs(batch))
         IN  IF b.error = "RuntimeError"
             THEN [kind |-> "txt",
                   data |-> Join([i \in 1..Len(batch) |-> batch[i][1]], <<"\n">>),
                   raised |-> TRUE]
             ELSE [kind |-> "pdf", data |-> b.items, raised |-> FALSE]
    ELSE IF available
    THEN [kind |-> "pdf",
          data |-> GridItems([i \in 1..Len(batch) |-> <<batch[i], << >> >>], 8, 2),
          raised |-> FALSE]
    ELSE [kind |-> "info", data |-> << >>, raised |-> FALSE]

(***************************************************************************)
(* generator.py: generate_operations.                                      *)
(***************************************************************************)
AddendMaxWhole(a) == 100
\* "b = random.randint(1, 100 - a)"
AddendMax(a) == 100 - a

ProductFitsBelow(a, b) == a * b < 100
\* "if a * b <= 100"
ProductFits(a, b) == a * b <= 100

\* The body of one iteration for op_type t, generator in state r: the set of
\* <<result, next state>>, result << >> when the iteration ends in "continue".
\* The draws are explored like the coefficients of the equations.
OperationFor(t, r) ==
    CASE t = "+" ->
           UNION {{<<Format(x[1], "+", y[1]), y[2]>> :
                     y \in RandCoef(x[2], 1, AddendMax(x[1]))} :
                  x \in RandCoef(r, 1, 99)}
      [] t = "-" ->
           UNION {{<<Format(x[1], "-", y[1]), y[2]>> :
                     y \in RandCoef(x[2], 1, x[1] - 1)} :
                  x \in RandCoef(r, 2, 100)}
      [] t = "*" ->
           UNION {{<<IF ProductFits(x[1], y[1]) THEN Format(x[1], "*", y[1]) ELSE << >>,
                     y[2]>> :
                     y \in RandCoef(x[2], 1, 10)} :
                  x \in RandCoef(r, 1, 10)}
      [] t = "/" ->
           UNION {{<<Format(x[1] * y[1], "/", x[1]), y[2]>> :
                     y \in RandCoef(x[2], 1, 10)} :
                  x \in RandCoef(r, 1, 10)}

(***************************************************************************)
(* State.                                                                  *)
(***************************************************************************)
VARIABLES
    rng,       \* the process-wide generator of the random module
    gpc,       \* position in the pair generator: "idle", "loop", "returned"
    op,        \* the operation of the pair generator running or returned
    tier,      \* its tier argument ("none" for the unconstrained generators)
    tries,     \* iterations of the sampling loop completed
    pair,      \* the pair returned
    via,       \* which return produced it: "plain", "loop", "fallback"
    pc,        \* position in generate_problems: "idle", "for", "call", "done"
    n,         \* the count generate_problems is called with
    tiers,     \* its list "tiers"
    idx,       \* the position of the for loop in tiers (from 1)
    problems,  \* its list "problems": <<expression, answer>> tuples
    asked,     \* history: per appended problem, the tier requested and the
               \* return of the pair generator that produced its pair
    left,      \* calls of generate_problems still explored in this behaviour
    fresh,     \* <<seed>> while the generator is seeded and undrawn, else << >>
    startSeed, \* the value of fresh when the running call began
    log,       \* history: <<startSeed, n, result>> of every call that returned
    cfn,       \* the counter called on its own: "none", "carry", "borrow"
    cargs,     \* its arguments <<a, b>>
    cres,      \* the count it returned
    epc,       \* position in one_equation: "idle", "while", "returned"
    elevel,    \* its level argument
    esol,      \* its solution argument
    lhs,       \* its left-hand side
    etries,    \* its counter "tries"
    eq,        \* the equation it returned
    apc,       \* position in generate_distributive / generate_equations:
               \* "idle", "loop", "call", "done"
    afn,       \* which of the two: "dist", "eq"
    an,        \* its argument n
    aphase,    \* the loop running: "easy", "medium", "hard"
    ai,        \* iterations of that loop completed
    toggle,    \* its variable "toggle"
    items,     \* its list (exprs, eqs); once "done", the list returned
    made,      \* history: per appended item, the level and solution passed,
               \* the value of tries when one_equation returned, and the
               \* item as it was appended
    avail,     \* REPORTLAB_AVAILABLE
    page,      \* the page whose main() runs or ran last
    ppc,       \* position in main(): "idle", "gen", "show"
    session,   \* st.session_state: per page << >> or <<the stored batch>>
    offer,     \* the download the last run ended with
    runs,      \* page runs still explored in this behaviour
    plog,      \* history: the generations the pages made
    stream,    \* history: who called random.seed last, and the pages that
               \* generated since
    begun,     \* history: stream and generator state when the running
               \* generation began
    dargs,     \* the arguments of a call of build_pdf made on its own
    doc,       \* what the call produced; doc.error = "uncalled" before it
    opc,       \* position in generate_operations: "idle", "while", "done"
    ocount,    \* its argument count
    operations,\* its list "operations"
    iters      \* iterations of its while loop completed

pvars == <<rng, gpc, op, tier, tries, pair, via>>
bvars == <<pc, n, tiers, idx, problems, asked, left, fresh, startSeed, log>>
cvars == <<cfn, cargs, cres>>
\* The state outside the addition/subtraction generators.
evars == <<epc, elevel, esol, lhs, etries, eq>>
avars == <<apc, afn, an, aphase, ai, toggle, items, made>>
gvars == <<avail, page, ppc, session, offer, runs, plog, stream, begun>>
dvars == <<dargs, doc>>
ovars == <<opc, ocount, operations, iters>>
xvars == <<cvars, evars, avars, gvars, dvars, ovars>>
vars == <<rng, gpc, op, tier, tries, pair, via,
          pc, n, tiers, idx, problems, asked, left, fresh, startSeed, log,
          cfn, cargs, cres,
          epc, elevel, esol, lhs, etries, eq,
          apc, afn, an, aphase, ai, toggle, items, made,
          avail, page, ppc, session, offer, runs, plog, stream, begun,
          dargs, doc, opc, ocount, operations, iters>>

NoPair == <<0, 0>>

PairIdle ==
    /\ gpc = "idle"
    /\ op = "+"
    /\ tier = "none"
    /\ tries = 0
    /\ pair = NoPair
    /\ via = "none"

BatchIdle ==
    /\ pc = "idle"
    /\ tiers = << >>
    /\ idx = 1
    /\ problems = << >>
    /\ asked = << >>
    /\ fresh = << >>
    /\ startSeed = << >>
    /\ log = << >>

CountIdle ==
    /\ cfn = "none"
    /\ cargs = <<0, 0>>
    /\ cres = 0

\* Nothing outside the addition/subtraction generators is running.
EquationIdle ==
    /\ epc = "idle"
    /\ elevel = 0
    /\ esol = 0
    /\ lhs = << >>
    /\ etries = 0
    /\ eq = << >>

AlgebraIdle ==
    /\ apc = "idle"
    /\ afn = "dist"
    /\ an = 0
    /\ aphase = "easy"
    /\ ai = 0
    /\ toggle = 0
    /\ items = << >>
    /\ made = << >>

NoStream == [by |-> << >>, gens |-> << >>]

NoRun == [stream |-> NoStream, start |-> 0, text |-> << >>,
          clicked |-> FALSE, stored |-> FALSE]

PagesIdle ==
    /\ avail = TRUE
    /\ page = "none"
    /\ ppc = "idle"
    /\ session = [p \in Pages |-> << >>]
    /\ offer = NoOffer
    /\ runs = 0
    /\ plog = << >>
    /\ stream = NoStream
    /\ begun = NoRun

NoDoc == [error |-> "uncalled", items |-> << >>, table |-> << >>, key |-> << >>]

\* Neither build_pdf nor generate_operations is called on its own.
ToolsIdle ==
    /\ dargs = PageArgs(<< >>)
    /\ doc = NoDoc
    /\ opc = "idle"
    /\ ocount = 0
    /\ operations = << >>
    /\ iters = 0

OthersIdle == CountIdle /\ EquationIdle /\ AlgebraIdle /\ PagesIdle /\ ToolsIdle

AtRest == pc \in {"idle", "done"}

(***************************************************************************)
(* The pair generators, called on their own.                               *)
(***************************************************************************)
\* generate_3digit_operands_addition() / generate_3digit_operands_subtraction()
CallPlain ==
    /\ AtRest
    /\ gpc = "idle"
    /\ \E o \in Ops :
         \E c \in Fallback(o, rng) :
            /\ op' = o
            /\ pair' = <<c[1], c[2]>>
            /\ rng' = c[3]
    /\ gpc' = "returned"
    /\ via' = "plain"
    /\ fresh' = << >>
    /\ UNCHANGED <<tier, tries>>
    /\ UNCHANGED <<pc, n, tiers, idx, problems, asked, left, startSeed, log>>
    /\ UNCHANGED xvars

\* _gen_add_by_difficulty(tier) / _gen_sub_by_difficulty(tier): entry.
EnterTiered(o, t) ==
    /\ op' = o
    /\ tier' = t
    /\ tries' = 0
    /\ pair' = NoPair
    /\ via' = "none"
    /\ gpc' = "loop"

CallTiered ==
    /\ AtRest
    /\ gpc = "idle"
    /\ \E o \in Ops, t \in TierArgs : EnterTiered(o, t)
    /\ UNCHANGED rng
    /\ UNCHANGED bvars
    /\ UNCHANGED xvars

\* The loop variable of "for _ in range(2000)" after a rejected candidate.
NextTryStays(t) == t
NextTry(t) == t + 1

\* One iteration of "for _ in range(2000)": draw a and b, count, test.
Attempt ==
    /\ gpc = "loop"
    /\ tries < MaxTries
    /\ \E c \in Sample(op, rng) :
         /\ rng' = c[3]
         /\ IF TierAccepts(tier, Count(op, c[1], c[2]))
            THEN /\ pair' = <<c[1], c[2]>>
                 /\ via' = "loop"
                 /\ gpc' = "returned"
                 /\ UNCHANGED tries
            ELSE /\ tries' = NextTry(tries)
                 /\ UNCHANGED <<pair, via, gpc>>
    /\ fresh' = << >>
    /\ UNCHANGED <<op, tier>>
    /\ UNCHANGED <<pc, n, tiers, idx, problems, asked, left, startSeed, log>>
    /\ UNCHANGED xvars

\* The loop is exhausted: return the unconstrained generator's pair.
Exhausted ==
    /\ gpc = "loop"
    /\ tries = MaxTries
    /\ \E c \in Fallback(op, rng) :
         /\ pair' = <<c[1], c[2]>>
         /\ rng' = c[3]
    /\ via' = "fallback"
    /\ gpc' = "returned"
    /\ fresh' = << >>
    /\ UNCHANGED <<op, tier, tries>>
    /\ UNCHANGED <<pc, n, tiers, idx, problems, asked, left, startSeed, log>>
    /\ UNCHANGED xvars

\* The caller takes the pair.
TakePair ==
    /\ gpc' = "idle"
    /\ op' = "+"
    /\ tier' = "none"
    /\ tries' = 0
    /\ pair' = NoPair
    /\ via' = "none"

Discard ==
    /\ AtRest
    /\ gpc = "returned"
    /\ TakePair
    /\ UNCHANGED rng
    /\ UNCHANGED bvars
    /\ UNCHANGED xvars

(***************************************************************************)
(* generate_problems(n), and random.seed before it.                        *)
(***************************************************************************)
\* random.seed(seed): the generator restarts from the seed's state.
SeedKept(cur, seed) == cur
SeedTo(cur, seed) == SeedState(seed)

Reseed ==
    /\ AtRest
    /\ gpc = "idle"
    /\ left > 0
    /\ \E s \in 0..MaxSeed :
         /\ rng' = SeedTo(rng, s)
         /\ fresh' = <<s>>
    /\ UNCHANGED <<gpc, op, tier, tries, pair, via>>
    /\ UNCHANGED <<pc, n, tiers, idx, problems, asked, left, startSeed, log>>
    /\ UNCHANGED xvars

\* Entry: the list tiers is built, problems is empty.
CallGenerate ==
    /\ AtRest
    /\ gpc = "idle"
    /\ left > 0
    /\ left' = left - 1
    /\ tiers' = TiersFor(n)
    /\ idx' = 1
    /\ problems' = << >>
    /\ asked' = << >>
    /\ startSeed' = fresh
    /\ pc' = "for"
    /\ UNCHANGED <<rng, gpc, op, tier, tries, pair, via>>
    /\ UNCHANGED <<n, fresh, log>>
    /\ UNCHANGED xvars

\* "for tier in tiers": op = random.choice(['+', '-']), then the call of the
\* tiered pair generator of that operation.
ForTier ==
    /\ pc = "for"
    /\ idx <= Len(tiers)
    /\ \E c \in Choice(rng, <<"+", "-">>) :
         /\ rng' = c[2]
         /\ EnterTiered(c[1], tiers[idx])
    /\ fresh' = << >>
    /\ pc' = "call"
    /\ UNCHANGED <<n, tiers, idx, problems, asked, left, startSeed, log>>
    /\ UNCHANGED xvars

\* The pair generator returned: compute the answer, append the problem.
AppendProblem ==
    /\ pc = "call"
    /\ gpc = "returned"
    /\ problems' = Append(problems,
                          <<Format(pair[1], op, pair[2]), Answer(op, pair[1], pair[2])>>)
    /\ asked' = Append(asked, [tier |-> tier, via |-> via])
    /\ idx' = idx + 1
    /\ pc' = "for"
    /\ TakePair
    /\ UNCHANGED <<rng, n, tiers, left, fresh, startSeed, log>>
    /\ UNCHANGED xvars

\* "return problems"
ReturnProblems ==
    /\ pc = "for"
    /\ idx > Len(tiers)
    /\ pc' = "done"
    /\ log' = Append(log, <<startSeed, n, problems>>)
    /\ UNCHANGED <<rng, gpc, op, tier, tries, pair, via>>
    /\ UNCHANGED <<n, tiers, idx, problems, asked, left, fresh, startSeed>>
    /\ UNCHANGED xvars

(***************************************************************************)
(* Specifications.                                                         *)
(***************************************************************************)
\* The pair generators on an unseeded generator: every draw is free.
InitPair ==
    /\ rng = Entropy
    /\ PairIdle
    /\ BatchIdle
    /\ n = 0
    /\ left = 0
    /\ OthersIdle

SpecPair ==
    InitPair /\ [][CallPlain \/ CallTiered \/ Attempt \/ Exhausted \/ Discard]_vars

\* generate_problems on a deterministic generator.  The generator starts in
\* its degenerate state or in a regular one; random.seed moves it to a
\* seed's stream.
InitBatch ==
    /\ rng \in 0..MaxStart
    /\ PairIdle
    /\ BatchIdle
    /\ n \in 0..MaxN
    /\ left = MaxCalls
    /\ OthersIdle

NextBatch ==
    Reseed \/ CallGenerate \/ ForTier \/ Attempt \/ Exhausted \/ AppendProblem \/ ReturnProblems

SpecBatch == InitBatch /\ [][NextBatch]_vars

\* A counter that consumed a draw of the process-wide generator.
CallCarryCountDrawing ==
    /\ cfn = "none"
    /\ cfn' = "carry"
    /\ cres' = carry_count_add(cargs[1], cargs[2])
    /\ rng' = Step(rng)
    /\ UNCHANGED cargs
    /\ UNCHANGED <<gpc, op, tier, tries, pair, via, bvars, evars, avars, gvars, dvars, ovars>>

\* The carry and borrow counters called on their own, on every pair of
\* three-digit numbers.
CallCarryCount ==
    /\ cfn = "none"
    /\ cfn' = "carry"
    /\ cres' = carry_count_add(cargs[1], cargs[2])
    /\ UNCHANGED cargs
    /\ UNCHANGED <<pvars, bvars, evars, avars, gvars, dvars, ovars>>

\* _borrow_count_sub is written for a >= b.
CallBorrowCount ==
    /\ cfn = "none"
    /\ cargs[1] >= cargs[2]
    /\ cfn' = "borrow"
    /\ cres' = borrow_count_sub(cargs[1], cargs[2])
    /\ UNCHANGED cargs
    /\ UNCHANGED <<pvars, bvars, evars, avars, gvars, dvars, ovars>>

InitCount ==
    /\ rng = Entropy
    /\ PairIdle
    /\ BatchIdle
    /\ n = 0
    /\ left = 0
    /\ cfn = "none"
    /\ cargs \in (100..999) \X (100..999)
    /\ cres = 0
    /\ EquationIdle
    /\ AlgebraIdle
    /\ PagesIdle
    /\ ToolsIdle

SpecCount == InitCount /\ [][CallCarryCount \/ CallBorrowCount]_vars

\* A call that is running executes its next statement: Python runs the
\* function body sequentially, nothing can hold a started call back.
FairRun ==
    /\ WF_vars(ForTier)
    /\ WF_vars(Attempt)
    /\ WF_vars(Exhausted)
    /\ WF_vars(AppendProblem)
    /\ WF_vars(ReturnProblems)

\* Termination is a property of each call: the fair behaviours make one call
\* of generate_problems, seeded before it or not.
InitBatchFair ==
    /\ rng \in 0..MaxStart
    /\ PairIdle
    /\ BatchIdle
    /\ n \in 0..MaxN
    /\ left = 1
    /\ OthersIdle

SpecBatchFair == InitBatchFair /\ [][NextBatch]_vars /\ FairRun

\* One call of generate_problems with a counter called by another caller at
\* any moment before, during or after it: the counters are module-level
\* functions, nothing orders them against a running generation.
InitEffects ==
    /\ rng \in 0..MaxStart
    /\ PairIdle
    /\ BatchIdle
    /\ n \in {0, 3, 16}
    /\ left = 1
    /\ cfn = "none"
    /\ cargs \in {<<555, 555>>, <<905, 806>>, <<100, 100>>, <<199, 801>>}
    /\ cres = 0
    /\ EquationIdle
    /\ AlgebraIdle
    /\ PagesIdle
    /\ ToolsIdle

SpecEffects ==
    InitEffects
        /\ [][\/ CallGenerate \/ ForTier \/ Attempt \/ Exhausted
              \/ AppendProblem \/ ReturnProblems
              \/ CallCarryCount \/ CallBorrowCount]_vars

(***************************************************************************)
(* build_pdf called on its own.                                            *)
(***************************************************************************)
CallBuildPdf ==
    /\ doc = NoDoc
    /\ doc' = build_pdf(avail, dargs)
    /\ UNCHANGED dargs
    /\ UNCHANGED <<pvars, bvars, cvars, evars, avars, gvars, ovars>>

\* The lists passed hold additions, a subtraction written with a trailing
\* '=', a bare 'x' and an equation in x; they are shorter and longer than
\* the grids.  ReportLab is installed or not.
InitPdf ==
    /\ rng = Entropy
    /\ PairIdle
    /\ BatchIdle
    /\ n = 0
    /\ left = 0
    /\ CountIdle
    /\ EquationIdle
    /\ AlgebraIdle
    /\ avail \in BOOLEAN
    /\ page = "none"
    /\ ppc = "idle"
    /\ session = [p \in Pages |-> << >>]
    /\ offer = NoOffer
    /\ runs = 0
    /\ plog = << >>
    /\ stream = NoStream
    /\ begun = NoRun
    /\ LET sum == << <<"1", " ", "+", " ", "2">>, 3 >>
           diff == << <<"7", " ", "-", " ", "4", " ", "=", " ">>, 3 >>
           bare == << <<"x">>, 5 >>
           equation == << <<"2", "x", " ", "=", " ", "6">>, 3 >>
           plain == <<sum, diff, bare, sum, diff, bare, sum>>
       IN  dargs \in
             [problems : {SubSeq(plain, 1, k) : k \in 0..Len(plain)}
                            \cup {<<sum, equation>>, <<sum, sum, sum, sum, equation>>},
              title : {<<"Q", "u", "i", "z">>,
                       <<"S", "o", "l", "v", "e", " ", "f", "o", "r", " ", "x", " ", "2">>},
              key : BOOLEAN,
              rows : 1..MaxRows,
              cols : 1..MaxCols,
              use_lhs : BOOLEAN,
              prefix : {<< >>, <<"x", " ", "=", " ">>}]
    /\ doc = NoDoc
    /\ opc = "idle"
    /\ ocount = 0
    /\ operations = << >>
    /\ iters = 0

SpecPdf == InitPdf /\ [][CallBuildPdf]_vars

(***************************************************************************)
(* generate_operations(count).                                             *)
(***************************************************************************)
\* Entry: "operations = []".
CallOperations ==
    /\ opc = "idle"
    /\ opc' = "while"
    /\ operations' = << >>
    /\ iters' = 0
    /\ UNCHANGED ocount
    /\ UNCHANGED <<pvars, bvars, cvars, evars, avars, gvars, dvars>>

\* One iteration of "while len(operations) < count": an operation is chosen
\* and its operands drawn; the result is appended unless the iteration ended
\* in "continue".  The loop is followed for MaxCount + 1 iterations.
OperationsIteration ==
    /\ opc = "while"
    /\ Len(operations) < ocount
    /\ iters <= MaxCount
    /\ \E t \in Choice(rng, <<"+", "-", "*", "/">>) :
         \E c \in OperationFor(t[1], t[2]) :
           /\ rng' = c[2]
           /\ operations' = IF c[1] = << >> THEN operations
                            ELSE Append(operations, c[1])
    /\ iters' = iters + 1
    /\ UNCHANGED <<opc, ocount>>
    /\ UNCHANGED <<gpc, op, tier, tries, pair, via>>
    /\ UNCHANGED <<bvars, cvars, evars, avars, gvars, dvars>>

\* "return operations"
ReturnOperations ==
    /\ opc = "while"
    /\ Len(operations) >= ocount
    /\ opc' = "done"
    /\ UNCHANGED <<ocount, operations, iters>>
    /\ UNCHANGED <<pvars, bvars, cvars, evars, avars, gvars, dvars>>

\* generate_operations(count) on the unseeded generator, count from 0 to
\* MaxCount.  A call that is running executes its next statement.
InitOperations ==
    /\ rng = Entropy
    /\ PairIdle
    /\ BatchIdle
    /\ n = 0
    /\ left = 0
    /\ CountIdle
    /\ EquationIdle
    /\ AlgebraIdle
    /\ PagesIdle
    /\ dargs = PageArgs(<< >>)
    /\ doc = NoDoc
    /\ opc = "idle"
    /\ ocount \in 0..MaxCount
    /\ operations = << >>
    /\ iters = 0

SpecOperations ==
    /\ InitOperations
    /\ [][CallOperations \/ OperationsIteration \/ ReturnOperations]_vars
    /\ WF_vars(OperationsIteration)
    /\ WF_vars(ReturnOperations)

(***************************************************************************)
(* one_equation(level, solution).                                          *)
(***************************************************************************)
\* Entry, generator in state r: the first left-hand side is built.
EnterOneEquation(level, solution, r) ==
    /\ epc = "idle"
    /\ \E d \in lhs_pattern(level, r) :
         /\ lhs' = d[1]
         /\ rng' = d[2]
    /\ elevel' = level
    /\ esol' = solution
    /\ etries' = 0
    /\ eq' = << >>
    /\ epc' = "while"

\* "while tries < 10": the left-hand side does not depend on x, a new one is
\* built.
Rebuild ==
    /\ epc = "while"
    /\ etries < MaxRebuilds
    /\ Degenerate(lhs, esol)
    /\ \E d \in lhs_pattern(elevel, rng) :
         /\ lhs' = d[1]
         /\ rng' = d[2]
    /\ etries' = etries + 1
    /\ UNCHANGED <<epc, elevel, esol, eq>>
    /\ UNCHANGED <<gpc, op, tier, tries, pair, via>>
    /\ UNCHANGED <<bvars, cvars, dvars, ovars, avars, gvars>>

\* The loop is left by "break" or because tries reached 10; the equation is
\* returned.
ReturnEquation ==
    /\ epc = "while"
    /\ ~(etries < MaxRebuilds /\ Degenerate(lhs, esol))
    /\ eq' = EquationText(lhs, esol)
    /\ epc' = "returned"
    /\ UNCHANGED <<elevel, esol, lhs, etries>>
    /\ UNCHANGED <<pvars, bvars, cvars, dvars, ovars, avars, gvars>>

\* The caller takes the equation returned.
TakeEquation ==
    /\ epc' = "idle"
    /\ elevel' = 0
    /\ esol' = 0
    /\ lhs' = << >>
    /\ etries' = 0
    /\ eq' = << >>

\* one_equation called on its own.
CallOneEquation ==
    /\ \E level \in 1..4, solution \in Grid(0 - 49, 49, CoefSamples) :
         EnterOneEquation(level, solution, rng)
    /\ UNCHANGED <<gpc, op, tier, tries, pair, via>>
    /\ UNCHANGED <<bvars, cvars, dvars, ovars, avars, gvars>>

DiscardEquation ==
    /\ epc = "returned"
    /\ TakeEquation
    /\ UNCHANGED <<pvars, bvars, cvars, dvars, ovars, avars, gvars>>

(***************************************************************************)
(* generate_distributive(n) and generate_equations(n).                     *)
(***************************************************************************)
\* The count of the loop running and the level it passes.
LoopCount ==
    CASE aphase = "easy" -> count_easy(an)
      [] aphase = "medium" -> count_medium(an)
      [] aphase = "hard" -> count_hard(an)

LoopLevel ==
    CASE aphase = "easy" -> 1
      [] aphase = "medium" -> toggle
      [] aphase = "hard" -> 4

ToggleKept == toggle

\* "toggle = 3 if toggle == 2 else 2", in the medium loop only.
NextToggle == IF aphase = "medium" THEN (IF toggle = 2 THEN 3 ELSE 2) ELSE toggle

AlgAtRest == apc \in {"idle", "done"}

\* Entry of generate_distributive (fn = "dist") or generate_equations
\* (fn = "eq") with n = k: the list is empty, the easy loop starts.
EnterAlgebra(fn, k) ==
    /\ afn' = fn
    /\ an' = k
    /\ aphase' = "easy"
    /\ ai' = 0
    /\ toggle' = 0
    /\ items' = << >>
    /\ made' = << >>
    /\ apc' = "loop"

\* One iteration of a loop of generate_distributive.
ForExpression ==
    /\ apc = "loop"
    /\ afn = "dist"
    /\ ai < LoopCount
    /\ \E d \in one_problem(LoopLevel, rng) :
         /\ items' = Append(items, d[1])
         /\ made' = Append(made, [level |-> LoopLevel, solution |-> 0, tries |-> 0,
                                   raw |-> d[1]])
         /\ rng' = d[2]
    /\ ai' = ai + 1
    /\ toggle' = NextToggle
    /\ fresh' = << >>
    /\ UNCHANGED <<apc, afn, an, aphase>>
    /\ UNCHANGED <<gpc, op, tier, tries, pair, via>>
    /\ UNCHANGED <<pc, n, tiers, idx, problems, asked, left, startSeed, log>>
    /\ UNCHANGED <<cvars, dvars, ovars, evars, gvars>>

\* One iteration of a loop of generate_equations: s = random.randint(-49, 49),
\* then the call of one_equation.
ForEquation ==
    /\ apc = "loop"
    /\ afn = "eq"
    /\ ai < LoopCount
    /\ \E s \in RandInt(rng, 0 - 49, 49) : EnterOneEquation(LoopLevel, s[1], s[2])
    /\ apc' = "call"
    /\ fresh' = << >>
    /\ UNCHANGED <<afn, an, aphase, ai, toggle, items, made>>
    /\ UNCHANGED <<gpc, op, tier, tries, pair, via>>
    /\ UNCHANGED <<pc, n, tiers, idx, problems, asked, left, startSeed, log>>
    /\ UNCHANGED <<cvars, dvars, ovars, gvars>>

\* one_equation returned: the equation is appended.
AppendEquation ==
    /\ apc = "call"
    /\ epc = "returned"
    /\ items' = Append(items, eq)
    /\ made' = Append(made, [level |-> elevel, solution |-> esol, tries |-> etries,
                              raw |-> eq])
    /\ ai' = ai + 1
    /\ toggle' = NextToggle
    /\ apc' = "loop"
    /\ TakeEquation
    /\ UNCHANGED <<afn, an, aphase>>
    /\ UNCHANGED <<pvars, bvars, cvars, dvars, ovars, gvars>>

\* A loop is exhausted, the next one starts ("toggle = 2" before the medium
\* loop).  range() of a negative count is empty: that loop is exhausted at
\* once.
NextLoop ==
    /\ apc = "loop"
    /\ ai >= LoopCount
    /\ aphase # "hard"
    /\ aphase' = IF aphase = "easy" THEN "medium" ELSE "hard"
    /\ toggle' = IF aphase = "easy" THEN 2 ELSE toggle
    /\ ai' = 0
    /\ UNCHANGED <<apc, afn, an, items, made>>
    /\ UNCHANGED <<pvars, bvars, cvars, dvars, ovars, evars, gvars>>

\* "return exprs", or the list of the normalized equations.
ReturnAlgebra ==
    /\ apc = "loop"
    /\ ai >= LoopCount
    /\ aphase = "hard"
    /\ items' = IF afn = "eq"
                THEN [i \in 1..Len(items) |-> NormalizeEquation(items[i])]
                ELSE items
    /\ apc' = "done"
    /\ UNCHANGED <<afn, an, aphase, ai, toggle, made>>
    /\ UNCHANGED <<pvars, bvars, cvars, dvars, ovars, evars, gvars>>

\* The generator called on its own, with the function and the n of the
\* behaviour.
CallAlgebra ==
    /\ apc = "idle"
    /\ epc = "idle"
    /\ EnterAlgebra(afn, an)
    /\ UNCHANGED <<pvars, bvars, cvars, dvars, ovars, evars, gvars>>

(***************************************************************************)
(* main() of a page: one run of the script.                                *)
(***************************************************************************)
PageSeedBlankRestarts(p, text, r) ==
    IF Strip(text) = << >> THEN SeedState(0)
    ELSE IF p = "addsub" /\ IsInt(Strip(text)) THEN SeedTo(r, IntLiteral(Strip(text)))
    ELSE SeedStr(Strip(text))

\* A page that seeded with the field as typed, blanks included.
PageSeedUnstripped(p, text, r) ==
    IF Strip(text) = << >> THEN r
    ELSE IF p = "addsub" /\ IsInt(text) THEN SeedTo(r, IntLiteral(text))
    ELSE SeedStr(text)

\* "if seed_text.strip(): random.seed(...)" of the page p, generator in state r.
\* The addition/subtraction page seeds with int(text) when that parses; the
\* algebra pages always seed with the text.
PageSeed(p, text, r) ==
    IF Strip(text) = << >> THEN r
    ELSE IF p = "addsub" /\ IsInt(Strip(text)) THEN SeedTo(r, IntLiteral(Strip(text)))
    ELSE SeedStr(Strip(text))

\* A page that generated in every run.
NeedsBatchAlways(p, regen) == TRUE

\* The page generates when no batch is stored under its key or the button
\* was clicked.
NeedsBatch(p, regen) == session[p] = << >> \/ regen

\* Entry of generate_problems(16) from the page.
EnterProblems ==
    /\ n' = 16
    /\ tiers' = TiersFor(16)
    /\ idx' = 1
    /\ problems' = << >>
    /\ asked' = << >>
    /\ pc' = "for"

\* The run begins: the seed field is applied, then the page decides whether
\* it generates.  stream records who seeded last and which pages generated
\* since; begun records the stream and the generator state a generation
\* starts with, and what the run found: the seed field, whether the button
\* was clicked, whether a batch was stored.
BeginRun(p, text, regen) ==
    /\ ppc = "idle"
    /\ runs > 0
    /\ AtRest
    /\ AlgAtRest
    /\ gpc = "idle"
    /\ epc = "idle"
    /\ page' = p
    /\ rng' = PageSeed(p, text, rng)
    /\ stream' = IF Strip(text) = << >> THEN stream
                 ELSE [by |-> <<p, text>>, gens |-> << >>]
    /\ begun' = [stream |-> stream', start |-> rng', text |-> text,
                 clicked |-> regen, stored |-> session[p] # << >>]

RunAddSub ==
    /\ \E text \in SeedTexts("addsub"), regen \in BOOLEAN :
         /\ NeedsBatch("addsub", regen)
         /\ BeginRun("addsub", text, regen)
    /\ EnterProblems
    /\ ppc' = "gen"
    /\ UNCHANGED <<gpc, op, tier, tries, pair, via>>
    /\ UNCHANGED <<left, fresh, startSeed, log>>
    /\ UNCHANGED <<cvars, dvars, ovars, evars, avars>>
    /\ UNCHANGED <<avail, session, offer, runs, plog>>

RunAlgebra ==
    /\ \E p \in {"dist", "eq"}, regen \in BOOLEAN :
         \E text \in SeedTexts(p) :
           /\ NeedsBatch(p, regen)
           /\ BeginRun(p, text, regen)
           /\ EnterAlgebra(p, 16)
    /\ ppc' = "gen"
    /\ UNCHANGED <<gpc, op, tier, tries, pair, via>>
    /\ UNCHANGED <<bvars, cvars, dvars, ovars, evars>>
    /\ UNCHANGED <<avail, session, offer, runs, plog>>

\* A run that keeps the stored batch.
RunStored ==
    /\ \E p \in Pages :
         \E text \in SeedTexts(p) :
           /\ ~NeedsBatch(p, FALSE)
           /\ BeginRun(p, text, FALSE)
    /\ ppc' = "show"
    /\ UNCHANGED <<gpc, op, tier, tries, pair, via>>
    /\ UNCHANGED <<bvars, cvars, dvars, ovars, evars, avars>>
    /\ UNCHANGED <<avail, session, offer, runs, plog>>

\* The generator returned: "st.session_state[key] = ...".
StoreBatch ==
    /\ ppc = "gen"
    /\ IF page = "addsub" THEN pc = "done" ELSE apc = "done"
    /\ LET batch == IF page = "addsub" THEN problems ELSE items
       IN  /\ session' = [session EXCEPT ![page] = <<batch>>]
           /\ plog' = Append(plog, [page |-> page, stream |-> begun.stream,
                                    text |-> begun.text,
                                    start |-> begun.start, end |-> rng,
                                    batch |-> batch])
    /\ stream' = [stream EXCEPT !.gens = Append(@, page)]
    /\ ppc' = "show"
    /\ UNCHANGED <<pvars, bvars, cvars, dvars, ovars, evars, avars>>
    /\ UNCHANGED <<avail, page, offer, runs, begun>>

\* The preview and the download of the stored batch; the run ends.
ExportBatch ==
    /\ ppc = "show"
    /\ offer' = Export(page, avail, session[page][1])
    /\ ppc' = "idle"
    /\ runs' = runs - 1
    /\ UNCHANGED <<pvars, bvars, cvars, dvars, ovars, evars, avars>>
    /\ UNCHANGED <<avail, page, session, plog, stream, begun>>

(***************************************************************************)
(* Specifications of the algebra generators and of the pages.              *)
(***************************************************************************)
\* one_equation on an unseeded generator: every draw is free.
InitEquation ==
    /\ rng = Entropy
    /\ PairIdle
    /\ BatchIdle
    /\ n = 0
    /\ left = 0
    /\ OthersIdle

SpecEquation ==
    InitEquation
        /\ [][CallOneEquation \/ Rebuild \/ ReturnEquation \/ DiscardEquation]_vars

\* generate_distributive(n) and generate_equations(n) on a seeded generator,
\* n negative, zero, up to 16 and above.  The degenerate state 0 is left out:
\* on a constant stream the variable loop of one_problem never ends.
InitAlgebra ==
    /\ rng \in {SeedStr(Str(s)) : s \in 0..MaxAlgSeed}
    /\ PairIdle
    /\ BatchIdle
    /\ n = 0
    /\ left = 0
    /\ CountIdle
    /\ EquationIdle
    /\ PagesIdle
    /\ ToolsIdle
    /\ apc = "idle"
    /\ afn \in {"dist", "eq"}
    /\ an \in (0 - 2)..MaxN
    /\ aphase = "easy"
    /\ ai = 0
    /\ toggle = 0
    /\ items = << >>
    /\ made = << >>

NextAlgebra ==
    CallAlgebra \/ ForExpression \/ ForEquation \/ Rebuild \/ ReturnEquation
        \/ AppendEquation \/ NextLoop \/ ReturnAlgebra

SpecAlgebra == InitAlgebra /\ [][NextAlgebra]_vars

\* Runs of the three pages in one process, one after the other, ReportLab
\* installed or not.  The generator starts in a regular state; on the streams
\* reached from it the sampling loop of the pair generators finds its pair
\* within the 2000 tries, so Exhausted has no part in these behaviours.
InitPages ==
    /\ rng = 1
    /\ PairIdle
    /\ BatchIdle
    /\ n = 16
    /\ left = 0
    /\ CountIdle
    /\ EquationIdle
    /\ AlgebraIdle
    /\ avail \in BOOLEAN
    /\ page = "none"
    /\ ppc = "idle"
    /\ session = [p \in Pages |-> << >>]
    /\ offer = NoOffer
    /\ runs = MaxRuns
    /\ plog = << >>
    /\ stream = NoStream
    /\ begun = NoRun
    /\ ToolsIdle

NextPages ==
    RunAddSub \/ RunAlgebra \/ RunStored \/ StoreBatch \/ ExportBatch
        \/ ForTier \/ Attempt \/ AppendProblem \/ ReturnProblems
        \/ ForExpression \/ ForEquation \/ Rebuild \/ ReturnEquation
        \/ AppendEquation \/ NextLoop \/ ReturnAlgebra

SpecPages == InitPages /\ [][NextPages]_vars

(***************************************************************************)
(* Properties of the pair generators (SpecPair).                           *)
(***************************************************************************)
Returned == gpc = "returned"

\* C1: every pair returned for an addition problem, from the unconstrained
\* generator, from inside the sampling loop or from the fallback, for every
\* tier argument, has 100 <= a <= 999, 100 <= b <= 999 and a + b <= 999.
AdditionPairInRange ==
    (Returned /\ op = "+") =>
        /\ 100 <= pair[1] /\ pair[1] <= 999
        /\ 100 <= pair[2] /\ pair[2] <= 999
        /\ pair[1] + pair[2] <= 999

\* An addition pair returned by the fallback that sits on the bound a + b = 999.
AdditionFallbackAtBound ==
    /\ Returned /\ op = "+" /\ via = "fallback"
    /\ tier \in Tiers
    /\ pair[1] + pair[2] = 999

\* C2: every pair returned for a subtraction problem, from the unconstrained
\* generator, from inside the sampling loop or from the fallback, for every
\* tier argument, has 100 <= b <= a <= 999.
SubtractionPairInRange ==
    (Returned /\ op = "-") =>
        /\ 100 <= pair[2]
        /\ pair[2] <= pair[1]
        /\ pair[1] <= 999

\* A subtraction pair accepted inside the loop after rejected candidates, with
\* b below a.
SubtractionLoopReturn ==
    /\ Returned /\ op = "-" /\ via = "loop"
    /\ tries > 0
    /\ pair[2] < pair[1]

\* C3: a pair returned from inside the sampling loop has the carry count
\* (addition) or borrow count (subtraction) of the tier asked for: 0 for easy,
\* exactly 1 for medium, at least 2 for hard.
LoopReturnMatchesTier ==
    (Returned /\ via = "loop") =>
        LET k == Count(op, pair[1], pair[2])
        IN  /\ tier \in Tiers
            /\ tier = "easy" => k = 0
            /\ tier = "medium" => k = 1
            /\ tier = "hard" => k >= 2

\* A medium pair accepted inside the loop after at least one rejected candidate.
MediumAcceptedAfterRejection ==
    /\ Returned /\ via = "loop"
    /\ tier = "medium"
    /\ tries > 0

\* The range constraint of an operation.
ValidFor(o, p) ==
    IF o = "+"
    THEN 100 <= p[1] /\ 100 <= p[2] /\ p[1] + p[2] <= 999
    ELSE 100 <= p[2] /\ p[2] <= p[1] /\ p[1] <= 999

\* C10: the fallback is taken exactly when all 2000 candidates failed the tier
\* test, also for a tier argument that is none of easy, medium, hard; no draw
\* of the loop or of the fallback has an empty range (no error is raised), and
\* the pair returned is one the unconstrained generator of the same operation
\* returns, within that operation's range constraint.
FallbackReturnsValidPair ==
    /\ gpc = "loop" =>
         /\ tries <= MaxTries
         /\ tries < MaxTries => Sample(op, rng) # {}
         /\ tries = MaxTries => Fallback(op, rng) # {}
    /\ (Returned /\ via = "fallback") =>
         /\ tries = MaxTries
         /\ ValidFor(op, pair)
         /\ \E c \in (IF op = "+" THEN generate_3digit_operands_addition(rng)
                                   ELSE generate_3digit_operands_subtraction(rng)) :
               pair = <<c[1], c[2]>>
    /\ (Returned /\ tier = "other") => via = "fallback"

\* A fallback pair that does not match the tier asked for.
FallbackMissesTier ==
    /\ Returned /\ via = "fallback"
    /\ tier = "hard"
    /\ Count(op, pair[1], pair[2]) < 2

(***************************************************************************)
(* Properties of generate_problems (SpecBatch).                            *)
(***************************************************************************)
Done == pc = "done"

Canonical16 ==
    [i \in 1..16 |-> IF i <= 7 THEN "easy" ELSE IF i <= 14 THEN "medium" ELSE "hard"]

\* C4: generate_problems(16) returns exactly 16 problems, requested by
\* position as 7 easy (indices 0-6), 7 medium (7-13), 2 hard (14-15).
Batch16Schedule ==
    (Done /\ n = 16) =>
        /\ Len(problems) = 16
        /\ Len(asked) = 16
        /\ \A i \in 1..16 : asked[i].tier = Canonical16[i]

\* A call with n = 16 has returned its 16 problems.
Batch16Returned == Done /\ n = 16 /\ Len(problems) = 16

\* C5 as claimed: for every n >= 0, also above 16, generate_problems(n)
\* returns exactly n problems.
ReturnsExactlyN == Done => Len(problems) = n

TierCount(t) == Cardinality({i \in 1..Len(asked) : asked[i].tier = t})

\* C6 as claimed: for every n >= 0 other than 16, smaller or larger, the batch
\* holds round(7n/16) easy, round(7n/16) medium and n - easy - medium hard
\* problems.
SplitScalesWithN ==
    (Done /\ n # 16) =>
        LET k == RoundHalfEven(7 * n, 16)
        IN  /\ TierCount("easy") = k
            /\ TierCount("medium") = k
            /\ TierCount("hard") = n - 2 * k

Rank(t) == IF t = "easy" THEN 0 ELSE IF t = "medium" THEN 1 ELSE 2

\* C7: in the sequence generate_problems builds and returns, for every n, the
\* requested tiers never decrease with the position.
TiersNonDecreasing ==
    /\ \A i, j \in 1..Len(asked) :
         i < j => Rank(asked[i].tier) <= Rank(asked[j].tier)
    /\ \A i \in 1..Len(asked) : asked[i].tier \in Tiers
    /\ Done => Len(asked) = Len(problems)

\* A returned batch below 16 problems that holds all three tiers.
SmallBatchAllTiers ==
    /\ Done /\ n < 16
    /\ \A t \in Tiers : TierCount(t) > 0

\* Reading an expression back: the characters are split at the blanks and the
\* decimal numerals are evaluated.
DigitValue(c) ==
    CASE c = "0" -> 0 [] c = "1" -> 1 [] c = "2" -> 2 [] c = "3" -> 3
      [] c = "4" -> 4 [] c = "5" -> 5 [] c = "6" -> 6 [] c = "7" -> 7
      [] c = "8" -> 8 [] c = "9" -> 9

IsDigit(c) == c \in {"0", "1", "2", "3", "4", "5", "6", "7", "8", "9"}

RECURSIVE ParseNat(_)
ParseNat(s) ==
    IF s = << >> THEN 0
    ELSE 10 * ParseNat(SubSeq(s, 1, Len(s) - 1)) + DigitValue(s[Len(s)])

Blanks(e) == {i \in 1..Len(e) : e[i] = " "}

FirstBlank(e) == CHOOSE i \in Blanks(e) : \A j \in Blanks(e) : i <= j

\* "a + b" or "a - b": a numeral, a blank, the sign, a blank, a numeral.
WellFormed(e) ==
    /\ Cardinality(Blanks(e)) = 2
    /\ LET i == FirstBlank(e)
       IN  /\ i > 1
           /\ i + 2 \in Blanks(e)
           /\ i + 2 < Len(e)
           /\ e[i + 1] \in Ops
           /\ \A j \in (1..Len(e)) \ {i, i + 1, i + 2} : IsDigit(e[j])

Eval(e) ==
    LET i == FirstBlank(e)
        l == ParseNat(SubSeq(e, 1, i - 1))
        r == ParseNat(SubSeq(e, i + 3, Len(e)))
    IN  IF e[i + 1] = "+" THEN l + r ELSE l - r

\* C8: every problem of the list generate_problems builds is an expression
\* "a + b" or "a - b" paired with the value the expression evaluates to, also
\* when its pair came from the fallback.
ExpressionEvaluatesToAnswer ==
    \A i \in 1..Len(problems) :
        /\ WellFormed(problems[i][1])
        /\ Eval(problems[i][1]) = problems[i][2]

\* A returned batch with a problem whose pair came from the fallback.
BatchWithFallbackProblem ==
    /\ Done
    /\ \E i \in 1..Len(asked) : asked[i].via = "fallback"

TieredCallTerminates ==
    /\ [](gpc = "loop" => tries <= MaxTries)
    /\ []((Returned /\ via = "loop") => tries + 1 <= MaxTries)
    /\ []((Returned /\ via = "fallback") => tries = MaxTries)
    /\ (gpc = "loop") ~> Returned
    /\ (pc = "for") ~> Done

\* Inside generate_problems, a tiered call has returned through the fallback
\* after its 2000 candidates.
ExhaustedCallReturnedInBatch ==
    /\ pc = "call"
    /\ Returned /\ via = "fallback"
    /\ tries = MaxTries

(***************************************************************************)
(* The answers of a batch (SpecBatch).                                     *)
(***************************************************************************)
\* C12: every answer of the list generate_problems builds is an integer from
\* 0 to 999: no subtraction has a negative result, no addition a result
\* above 999.
AnswersWithin0And999 ==
    \A i \in 1..Len(problems) :
        /\ problems[i][2] \in Int
        /\ 0 <= problems[i][2]
        /\ problems[i][2] <= 999

HasSign(e, o) == \E j \in 1..Len(e) : e[j] = o

\* A returned batch of 16 that holds additions and subtractions.
MixedBatchReturned ==
    /\ Done /\ n = 16
    /\ \E i \in 1..Len(problems) : HasSign(problems[i][1], "+")
    /\ \E i \in 1..Len(problems) : HasSign(problems[i][1], "-")

(***************************************************************************)
(* The counters as functions of their arguments (SpecCount).               *)
(***************************************************************************)
Pow10(k) == IF k = 0 THEN 1 ELSE IF k = 1 THEN 10 ELSE IF k = 2 THEN 100 ELSE 1000

\* Schoolbook addition carries out of position k (0 the ones) exactly when
\* the numbers formed by the digits up to k add up to 10^(k+1) or more: that
\* is when the column sum plus the incoming carry reaches 10.
CarriesOut(a, b, k) == (a % Pow10(k + 1)) + (b % Pow10(k + 1)) >= Pow10(k + 1)

\* Schoolbook subtraction a - b borrows at position k exactly when the number
\* formed by the digits of a up to k is below that of b: that is when the
\* digit of a less the incoming borrow is below the digit of b.
BorrowsAt(a, b, k) == (a % Pow10(k + 1)) < (b % Pow10(k + 1))

\* C13: for all a, b in 100..999, _carry_count_add(a, b) is the number of
\* positions among ones, tens, hundreds where the column sum plus the incoming
\* carry is at least 10.
CarryCountIsSchoolbook ==
    cfn = "carry" =>
        cres = Cardinality({k \in 0..2 : CarriesOut(cargs[1], cargs[2], k)})

\* A carry out of the tens that exists only through the carry coming in.
CarryPropagated ==
    /\ cfn = "carry"
    /\ (cargs[1] % 10) + (cargs[2] % 10) >= 10
    /\ ((cargs[1] \div 10) % 10) + ((cargs[2] \div 10) % 10) = 9
    /\ cres >= 2

\* C14: for all three-digit a >= b, _borrow_count_sub(a, b) is the number of
\* positions among ones, tens, hundreds where a - b needs a borrow.
BorrowCountIsSchoolbook ==
    (cfn = "borrow" /\ cargs[1] >= cargs[2]) =>
        cres = Cardinality({k \in 0..2 : BorrowsAt(cargs[1], cargs[2], k)})

\* A borrow at the tens that exists only through the borrow taken at the ones.
BorrowPropagated ==
    /\ cfn = "borrow"
    /\ (cargs[1] % 10) < (cargs[2] % 10)
    /\ ((cargs[1] \div 10) % 10) = ((cargs[2] \div 10) % 10)
    /\ cres = 2

\* C15: the carry counter returns 0 for (100, 100), 1 for (150, 150), where
\* the one carry leaves the tens, and 1 for (500, 500).
CarryCountExamples ==
    cfn = "carry" =>
        /\ cargs = <<100, 100>> => cres = 0
        /\ cargs = <<150, 150>> =>
             /\ cres = 1
             /\ CarriesOut(150, 150, 1)
             /\ ~CarriesOut(150, 150, 0) /\ ~CarriesOut(150, 150, 2)
        /\ cargs = <<500, 500>> => cres = 1

\* The counter has returned for (500, 500).
CarryCounted500 == cfn = "carry" /\ cargs = <<500, 500>> /\ cres = 1

(***************************************************************************)
(* Properties of the pages (SpecPages).                                    *)
(***************************************************************************)
\* Reading a text back: its lines, split at the newline characters.
NewlinesOf(t) == {i \in 1..Len(t) : t[i] = "\n"}

RECURSIVE LinesOf(_)
LinesOf(t) ==
    IF NewlinesOf(t) = {} THEN <<t>>
    ELSE LET i == CHOOSE k \in NewlinesOf(t) : \A j \in NewlinesOf(t) : k <= j
         IN  <<SubSeq(t, 1, i - 1)>> \o LinesOf(SubSeq(t, i + 1, Len(t)))

\* The addition/subtraction page finished a run.
AddSubRunEnded == page = "addsub" /\ ppc = "idle"

\* C16: on the addition/subtraction page, when ReportLab is unavailable,
\* build_pdf raises RuntimeError with nothing produced, and the run ends with
\* a text download whose lines are the expressions of the stored problems,
\* one per line, in batch order.
TextExportWithoutRenderer ==
    (AddSubRunEnded /\ ~avail) =>
        LET stored == session["addsub"][1]
        IN  /\ build_pdf(avail, PageArgs(stored)).error = "RuntimeError"
            /\ build_pdf(avail, PageArgs(stored)).items = << >>
            /\ offer.kind = "txt"
            /\ offer.raised
            /\ LinesOf(offer.data) = [i \in 1..Len(stored) |-> stored[i][1]]

\* A run of the page without ReportLab ended with the text download of a
\* stored batch of 16 problems.
TextExportOffered ==
    /\ AddSubRunEnded
    /\ ~avail
    /\ offer.kind = "txt"
    /\ Len(session["addsub"][1]) = 16

\* The state the last random.seed before a logged generation set.
SeedOf(e) == PageSeed(e.stream.by[1], e.stream.by[2], 0)

\* C20: the generator is one state shared by the pages.  The first batch
\* generated after a random.seed, by whichever page, starts in the state that
\* seed set; a batch generated with no random.seed since the previous
\* generation starts in the state that generation, of whichever page, left;
\* and a page's batch is a function of the state it starts in.
PagesShareOneStream ==
    \A i \in 1..Len(plog) :
        /\ (plog[i].stream.by # << >> /\ plog[i].stream.gens = << >>) =>
               plog[i].start = SeedOf(plog[i])
        /\ plog[i].stream.gens # << >> =>
               /\ i > 1
               /\ plog[i - 1].page = plog[i].stream.gens[Len(plog[i].stream.gens)]
               /\ plog[i].start = plog[i - 1].end
        /\ \A j \in 1..Len(plog) :
               (plog[j].page = plog[i].page /\ plog[j].start = plog[i].start) =>
                   /\ plog[j].batch = plog[i].batch
                   /\ plog[j].end = plog[i].end

\* A page generated right after a seed, and generated again after the same
\* seed with another page's generation in between and no seed of its own: the
\* two batches differ.
InterleavedGenerationChangedBatch ==
    \E i \in 1..Len(plog), j \in 1..Len(plog) :
        /\ plog[i].page = plog[j].page
        /\ plog[i].stream.by # << >>
        /\ plog[j].stream.by # << >>
        /\ SeedOf(plog[i]) = SeedOf(plog[j])
        /\ plog[i].stream.gens = << >>
        /\ Len(plog[j].stream.gens) = 1
        /\ plog[j].stream.gens[1] # plog[j].page
        /\ plog[j].stream.by[1] # plog[j].page
        /\ plog[i].batch # plog[j].batch

(***************************************************************************)
(* Properties of the algebra generators (SpecAlgebra, SpecEquation).       *)
(***************************************************************************)
AlgebraDone == apc = "done"

\* C17: generate_distributive(16) and generate_equations(16) return exactly
\* 16 items: 7 of level 1, then 7 of levels 2, 3, 2, 3, 2, 3, 2, then 2 of
\* level 4.
Algebra16Schedule ==
    (AlgebraDone /\ an = 16) =>
        /\ Len(items) = 16
        /\ [i \in 1..Len(made) |-> made[i].level]
             = <<1, 1, 1, 1, 1, 1, 1, 2, 3, 2, 3, 2, 3, 2, 4, 4>>

\* generate_distributive(16) returned.
Distributive16Returned == AlgebraDone /\ an = 16 /\ afn = "dist" /\ Len(items) = 16

\* Reading an equation back: the sides of " = ".
EqualsAt(e) == CHOOSE i \in 1..Len(e) : e[i] = "="

LhsOf(e) == SubSeq(e, 1, EqualsAt(e) - 2)

RhsOf(e) == SubSeq(e, EqualsAt(e) + 2, Len(e))

\* "lhs = rhs" with one "=" between blanks.
IsEquation(e) ==
    /\ Cardinality({i \in 1..Len(e) : e[i] = "="}) = 1
    /\ EqualsAt(e) > 2
    /\ EqualsAt(e) + 2 <= Len(e)
    /\ e[EqualsAt(e) - 1] = " "
    /\ e[EqualsAt(e) + 1] = " "

\* C18: every equation generate_equations returns has an integer solution s
\* with -49 <= s <= 49: its right-hand side is the exact value of its
\* left-hand side at x = s, also when the left-hand side was rebuilt and
\* after the sign-normalising replacements.
EquationsHaveTheirSolution ==
    (AlgebraDone /\ afn = "eq") =>
        \A i \in 1..Len(items) :
            /\ made[i].solution \in (0 - 49)..49
            /\ IsEquation(items[i])
            /\ eval_at(LhsOf(items[i]), made[i].solution) # Undefined
            /\ eval_at(LhsOf(items[i]), made[i].solution) = PyEval(RhsOf(items[i]), <<0, 1>>)

\* A returned list with an equation whose left-hand side was rebuilt and an
\* equation the replacements changed.
RebuiltAndNormalizedReturned ==
    /\ AlgebraDone
    /\ afn = "eq"
    /\ \E i \in 1..Len(items) : made[i].tries > 0
    /\ \E i \in 1..Len(items) : items[i] # made[i].raw

\* C19: every equation one_equation returns depends on x: its left-hand side
\* has different values at x = solution and x = solution + 1.
ReturnedEquationDependsOnX ==
    (epc = "returned") =>
        eval_at(LhsOf(eq), esol) # eval_at(LhsOf(eq), esol + 1)

(***************************************************************************)
(* C21.  A call of generate_problems changes nothing but the position of   *)
(* the random stream (and its own locals), and the counters neither read   *)
(* nor advance the stream: what a counter returns is the schoolbook count  *)
(* of its arguments whatever the stream's position and whatever            *)
(* generate_problems is doing, and a counter call leaves the stream, the   *)
(* running generation and everything else as they were.                    *)
(***************************************************************************)
\* A statement of generate_problems or of a pair generator it called ran.
GenerateStep == <<pc, idx, gpc, tries, problems>>' # <<pc, idx, gpc, tries, problems>>

\* The state of the program that is neither the random stream nor a local
\* of the running generate_problems call.
Elsewhere == <<cvars, evars, avars, avail, session, offer, page, ppc, dvars, ovars>>

SchoolbookCount(fn, a, b) ==
    IF fn = "carry"
    THEN Cardinality({k \in 0..2 : CarriesOut(a, b, k)})
    ELSE Cardinality({k \in 0..2 : BorrowsAt(a, b, k)})

\* C21: generate_problems moves only the random stream; the counters are
\* functions of (a, b) that touch no state.
CallsKeepToTheirState ==
    /\ [](cfn # "none" => cres = SchoolbookCount(cfn, cargs[1], cargs[2]))
    /\ [][GenerateStep => UNCHANGED Elsewhere]_vars
    /\ [][cfn' # cfn => UNCHANGED <<pvars, bvars, evars, avars, gvars, dvars, ovars>>]_vars

\* A counter was called and a 16-problem generation that drew from the
\* stream has returned.
CounterCalledAroundGeneration ==
    /\ pc = "done"
    /\ Len(problems) = 16
    /\ fresh = << >>
    /\ cfn = "borrow"
    /\ cargs = <<905, 806>>
    /\ cres = 2

(***************************************************************************)
(* C22.  Every run of the addition/subtraction page whose seed field holds *)
(* more than blanks starts by putting the generator in the state of that   *)
(* seed - of the integer when the stripped text is a number, of the        *)
(* stripped text otherwise - before anything is generated; a run whose     *)
(* field is blank leaves the generator where it was.  Hence generations    *)
(* under the same non-blank seed text store the same batch.                *)
(***************************************************************************)
\* A run of the addition/subtraction page begins in this step.
AddSubRunBegins == ppc = "idle" /\ ppc' # "idle" /\ page' = "addsub"

\* The state random.seed leaves for what the field holds.
SeedStateOfText(t) ==
    IF IsInt(Strip(t)) THEN SeedState(ParseNat(Strip(t))) ELSE SeedStr(Strip(t))

\* C22: a non-blank seed reseeds every run of the page before generation,
\* a blank one never does, and equal non-blank seeds give equal batches.
SeedFieldRulesTheStream ==
    /\ [][AddSubRunBegins =>
            /\ rng' = IF Strip(begun'.text) = << >> THEN rng
                      ELSE SeedStateOfText(begun'.text)
            /\ begun'.start = rng']_vars
    /\ [](\A t \in {<<" ">>, <<" ", " ">>} : PageSeed("addsub", t, rng) = rng)
    /\ [](\A i, j \in 1..Len(plog) :
             (/\ plog[i].page = "addsub"
              /\ plog[j].page = "addsub"
              /\ Strip(plog[i].text) # << >>
              /\ plog[i].text = plog[j].text)
             => plog[i].batch = plog[j].batch)

\* The page generated twice under the word seed with another page's
\* generation in between, and once the generator had moved on a blank seed.
SeededTwiceAroundAnotherPage ==
    /\ Len(plog) = 3
    /\ plog[1].page = "addsub" /\ plog[1].text = <<"a", " ">>
    /\ plog[2].page # "addsub"
    /\ plog[3].page = "addsub" /\ plog[3].text = <<"a", " ">>

(***************************************************************************)
(* C25.  A run of the addition/subtraction page replaces the stored batch  *)
(* only when it found none stored or the button was clicked; a run that    *)
(* found a batch and no click leaves it as it was, whatever the seed field *)
(* holds.  The stored batch has 16 entries, so the preview's reads of      *)
(* problems[i] and problems[i + 8], i in 0..7, are inside the list.        *)
(***************************************************************************)
StoredProblems == session["addsub"]

\* C25: the stored batch changes only in a run without a stored batch or
\* with a click, and always holds the 16 entries the preview reads.
StoredBatchKeptUnlessAsked ==
    /\ [][StoredProblems' # StoredProblems =>
            page = "addsub" /\ (begun.clicked \/ ~begun.stored)]_vars
    /\ [][(page' = "addsub" /\ begun'.stored /\ ~begun'.clicked) =>
            StoredProblems' = StoredProblems]_vars
    /\ [](StoredProblems # << >> =>
            /\ Len(StoredProblems[1]) = 16
            /\ \A i \in 0..7 : {i + 1, i + 8 + 1} \subseteq DOMAIN StoredProblems[1])

\* The batch generated on a blank seed is previewed in a later run of the
\* page in which the seed field was edited and the button not clicked.
SeedEditedBatchKept ==
    /\ page = "addsub"
    /\ ppc = "show"
    /\ begun.stored
    /\ ~begun.clicked
    /\ begun.text = <<"a", " ">>
    /\ Len(plog) = 1
    /\ plog[1].page = "addsub"
    /\ plog[1].text = << >>
    /\ StoredProblems = <<plog[1].batch>>

(***************************************************************************)
(* Properties of build_pdf called on its own (SpecPdf).                    *)
(***************************************************************************)
\* build_pdf ran past its ReportLab test.
Rendering == doc.error \notin {"uncalled", "RuntimeError"}

GridSize == dargs.rows * dargs.cols

\* The cells of a table of the document that show item i (from 0).
CellsOf(table, i) == {k \in DOMAIN table : table[k].idx = i}

\* C23: for every rows >= 1 and cols >= 1 build_pdf cuts or pads the list to
\* rows * cols items, never reads outside the padded list, and shows each of
\* the rows * cols items in exactly one cell of the grid, numbered by its
\* position + 1, item r on the left of row r and item r + rows on its right.
GridPlacesEveryItem ==
    Rendering =>
        /\ doc.error = "none"
        /\ Len(doc.items) = GridSize
        /\ \A i \in 1..GridSize :
               doc.items[i] = IF i <= Len(dargs.problems) THEN dargs.problems[i]
                              ELSE << << >>, 0 >>
        /\ \A i \in 0..(GridSize - 1) :
               /\ Cardinality(CellsOf(doc.table, i)) = 1
               /\ \A k \in CellsOf(doc.table, i) :
                      doc.table[k].text = Str(i + 1) \o <<")", " ">> \o doc.items[i + 1][1]
        /\ \A k \in DOMAIN doc.table :
               /\ doc.table[k].row \in 0..(dargs.rows - 1)
               /\ doc.table[k].side \in 0..(dargs.cols - 1)
               /\ doc.table[k].idx = doc.table[k].row + doc.table[k].side * dargs.rows

\* The sheet is taken for a solve-for-x sheet: by its title, or by a grid item
\* that holds both 'x' and '='.
SolveForX ==
    \/ Contains(dargs.title, <<"S", "o", "l", "v", "e", " ", "f", "o", "r", " ", "x">>)
    \/ \E i \in DOMAIN doc.items :
           Contains(doc.items[i][1], <<"x">>) /\ Contains(doc.items[i][1], <<"=">>)

\* The entry of item i (from 0) that shows "lhs = answer".
LhsEntry(i) ==
    Str(i + 1) \o <<")", " ">> \o lhs_text(doc.items[i + 1][1])
        \o <<" ", "=", " ">> \o Str(doc.items[i + 1][2])

\* The entry of item i that shows the answer after a prefix.
AnswerEntry(i, prefix) == Str(i + 1) \o <<")", " ">> \o prefix \o Str(doc.items[i + 1][2])

HundredsNeverCount ==
    LET a == cargs[1]
        b == cargs[2]
    IN  /\ (cfn = "carry" /\ a + b <= 999) =>
               /\ cres = CarryLoop(a, b, 0, 0, 2)
               /\ ~CarriesOut(a, b, 2)
               /\ cres \in 0..2
               /\ TierAccepts("hard", cres) => cres = 2
        /\ (cfn = "borrow" /\ b <= a) =>
               /\ cres = BorrowLoop(a, b, 0, 0, 2)
               /\ ~BorrowsAt(a, b, 2)
               /\ cres \in 0..2
               /\ TierAccepts("hard", cres) => cres = 2

\* A valid addition with carries out of the ones and the tens whose hundreds
\* column reaches 9 with the carry, one short of counting.
HundredsColumnAtNine ==
    /\ cfn = "carry"
    /\ cargs[1] + cargs[2] <= 999
    /\ (cargs[1] \div 100) + (cargs[2] \div 100) = 8
    /\ cres = 2
    /\ TierAccepts("hard", cres)

(***************************************************************************)
(* C27.  For each operation and each of the tiers easy, medium, hard some  *)
(* pair inside the range the loop samples passes the tier test: whenever   *)
(* the sampling loop is about to draw, a draw that leaves through the      *)
(* tier-matching return exists, so the fallback is not the only way out.   *)
(***************************************************************************)
\* The range the loop of operation o samples its pair from.
InSampledRange(o, a, b) ==
    IF o = "+" THEN a \in 100..899 /\ b \in 100..(999 - a)
    ELSE a \in 100..999 /\ b \in 100..a

TierMatchWithinReach ==
    (gpc = "loop" /\ tier \in Tiers /\ tries < MaxTries) =>
        \E c \in Sample(op, rng) :
            /\ InSampledRange(op, c[1], c[2])
            /\ TierAccepts(tier, Count(op, c[1], c[2]))

\* A hard subtraction left the loop through the tier-matching return after
\* draws that were rejected.
HardSubtractionLeftTheLoop ==
    /\ gpc = "returned"
    /\ via = "loop"
    /\ op = "-"
    /\ tier = "hard"
    /\ tries > 0
    /\ InSampledRange("-", pair[1], pair[2])
    /\ borrow_count_sub(pair[1], pair[2]) = 2

(***************************************************************************)
(* C28.  For every n, generate_distributive(n) and generate_equations(n)   *)
(* return max(0, n) items: the first min(7, n) of level 1, the next        *)
(* min(7, max(0, n - 7)) of levels 2, 3, 2, ..., the remaining             *)
(* max(0, n - 14) of level 4; nothing for n <= 0, and the hard part grows  *)
(* with n above 16.                                                        *)
(***************************************************************************)
\* The level of the i-th item (from 1) of the schedule.
ScheduledLevel(i) ==
    IF i <= 7 THEN 1
    ELSE IF i <= 14 THEN (IF (i - 7) % 2 = 1 THEN 2 ELSE 3)
    ELSE 4

AlgebraReturnsNItems ==
    AlgebraDone =>
        /\ Len(items) = Max(0, an)
        /\ Len(made) = Len(items)
        /\ \A i \in 1..Len(made) : made[i].level = ScheduledLevel(i)
        /\ Cardinality({i \in 1..Len(made) : made[i].level = 1}) = Max(0, Min(7, an))
        /\ Cardinality({i \in 1..Len(made) : made[i].level \in {2, 3}})
               = Min(7, Max(0, an - 7))
        /\ Cardinality({i \in 1..Len(made) : made[i].level = 4}) = Max(0, an - 14)

\* generate_equations(17) returned 17 equations, three of them hard.
SeventeenEquationsReturned ==
    /\ AlgebraDone
    /\ afn = "eq"
    /\ an = 17
    /\ Len(items) = 17
    /\ made[15].level = 4 /\ made[16].level = 4 /\ made[17].level = 4

(***************************************************************************)
(* Properties of generate_operations (SpecOperations).                     *)
(***************************************************************************)
\* Reading "a o b" back: the operands and the sign.
LeftOperand(e) == ParseNat(SubSeq(e, 1, FirstBlank(e) - 1))

SignOf(e) == e[FirstBlank(e) + 1]

RightOperand(e) == ParseNat(SubSeq(e, FirstBlank(e) + 3, Len(e)))

\* C29: generate_operations(count) terminates for every count >= 0 and
\* returns exactly count expressions after exactly count iterations: no
\* iteration ends in "continue", as no product of two factors of 1..10
\* exceeds 100.
OperationsReturnAfterCountIterations ==
    /\ (opc = "while") ~> (opc = "done")
    /\ [](iters = Len(operations))
    /\ [](opc = "done" => (Len(operations) = ocount /\ iters = ocount))
    /\ [](\A a \in 1..10, b \in 1..10 : ProductFits(a, b))

\* A call for two expressions returned after two iterations, the second a
\* product of the largest factors.
TwoOperationsReturned ==
    /\ opc = "done"
    /\ ocount = 2
    /\ iters = 2
    /\ Len(operations) = 2
    /\ operations[2] = <<"1", "0", " ", "*", " ", "1", "0">>

\* C30: every expression of the list is "a o b" with a value that is an
\* integer from 1 to 100: sums at most 100, differences at least 1, products
\* at most 100, divisions exact with divisor and quotient in 1..10.
OperationsEvaluateWithin1And100 ==
    \A i \in 1..Len(operations) :
        LET e == operations[i]
            a == LeftOperand(e)
            b == RightOperand(e)
        IN  /\ Cardinality(Blanks(e)) = 2
            /\ FirstBlank(e) + 2 \in Blanks(e)
            /\ \A j \in (1..Len(e)) \ {FirstBlank(e), FirstBlank(e) + 1, FirstBlank(e) + 2} :
                   IsDigit(e[j])
            /\ a >= 1 /\ b >= 1
            /\ CASE SignOf(e) = "+" -> a + b <= 100
                  [] SignOf(e) = "-" -> a - b >= 1 /\ a - b <= 100
                  [] SignOf(e) = "*" -> a * b <= 100
                  [] SignOf(e) = "/" -> /\ b \in 1..10
                                        /\ a % b = 0
                                        /\ (a \div b) \in 1..10
                  [] OTHER -> FALSE

\* A returned list with the largest sum and the largest quotient by the
\* largest divisor.
ExtremeOperationsReturned ==
    /\ opc = "done"
    /\ Len(operations) = 2
    /\ operations[1] = <<"9", "9", " ", "+", " ", "1">>
    /\ operations[2] = <<"1", "0", "0", " ", "/", " ", "1", "0">>

====
